---- MODULE Spec2Model ----
(***************************************************************************)
(* A model of sonarr-mcp-server: the Sonarr API client (retry executor,    *)
(* error normalisation, endpoint methods), the tool registry and the       *)
(* resource registry.                                                      *)
(***************************************************************************)
EXTENDS Integers, Sequences, FiniteSets, TLC

\* ------------------------------------------------------------------ bounds

\* Largest retry budget explored (the configuration allows 0..10).
MaxRetries == 6

\* Longest run of reads of resources followed.
MaxReads == 2

\* Most runs of initializeTools, and of initializeResources, followed.
MaxInits == 2

\* The largest queue record size sampled, in bytes.
MaxSize == 12

\* The largest disk sampled, in sixty-fourths of a GiB.
MaxChunks == 8

\* ------------------------------------------------------------ configuration

\* SONARR_MAX_RETRIES when the environment does not set it.
DefaultMaxRetries == 3

\* ------------------------------------------------------------------ state

VARIABLES
    \* --- SonarrApiClient.executeWithRetry
    rPc,        \* "idle" | "attempt" | "backoff" | "resolved" | "rejected"
    retries,    \* the parameter `retries`
    attempt,    \* the loop variable `attempt`
    lastError,  \* the local `lastError`
    result,     \* the value executeWithRetry resolved with
    outcomes,   \* history: what each invocation of `operation` did
    delays,     \* history: every delay handed to setTimeout, in order
    \* --- configuration and registries
    maxRetries, \* config.sonarr.maxRetries
    tools,      \* the registry object `tools`: name -> tool object
    resources,  \* the registry object `resources`: URI -> resource object
    \* --- the tool or resource invocation in progress
    invKind,    \* "none" | "tool" | "resource" | "connection" | "unknownTool" | "unknownResource"
    invName,    \* the tool name or resource URI asked for
    invArgs,    \* the args object handed to execute
    got,        \* values the body's awaits have resolved with so far, in order
    group,      \* the Client calls the body is awaiting (two under Promise.all)
    waiting,    \* indices of `group` whose HTTP request is still in flight
    partial,    \* index of `group` -> data, for the calls that have resolved
    calls,      \* history: every Client call of this invocation, in order
    httpLog,    \* history: every HTTP request of this invocation, in order
    outcome,    \* how execute / read settled
    caught,     \* history: the error the body's catch block received
    \* --- across invocations
    readLog,    \* history: the resource reads that came before the current one
    \* --- environment, configuration and the HTTP client built from it
    env,        \* process.env: the variables the Sonarr connection reads
    appConfig,  \* config.sonarr, once the environment has been validated
    axiosOptions, \* what the SonarrApiClient constructor hands to axios.create
    \* --- derived figures
    sample,     \* an upstream record and what the tool and the resource report of it
    \* --- SonarrMCPServer.run()
    server,     \* how far run() has come, and what it did to the process
    \* --- invocations in flight at the same time
    slots,      \* the invocations the handlers are awaiting
    upstreamSeries, \* the series record as Sonarr holds it
    eventLog    \* history: every request Sonarr answered, in order

retryVars == <<rPc, retries, attempt, lastError, result, outcomes, delays>>

configVars == <<maxRetries, tools, resources>>

invocationVars ==
    <<invKind, invName, invArgs, got, group, waiting, partial, calls, httpLog,
      outcome, caught>>

dispatchVars == <<configVars, invocationVars>>

historyVars == <<readLog>>

connectionVars == <<env, appConfig, axiosOptions>>

figureVars == <<sample>>

serverVars == <<server>>

sessionVars == <<slots, upstreamSeries, eventLog>>

\* State outside the single invocation the dispatcher follows.
outerVars == <<figureVars, serverVars, sessionVars>>

vars == <<retryVars, dispatchVars, historyVars, connectionVars, outerVars>>

\* ------------------------------------------------------------------ values

\* `undefined`, for a local that has not been assigned.
Undefined == [kind |-> "undefined", hasStatusCode |-> FALSE, statusCode |-> 0, id |-> 0]

\* HTTP status codes an operation's SonarrApiError may carry.
StatusCodes == {302, 400, 404, 499, 500}

\* new SonarrApiError(message, statusCode); id is the object's identity
\* (the number of the invocation that threw it).
SonarrApiError(hasStatus, status, id) ==
    [kind |-> "SonarrApiError", hasStatusCode |-> hasStatus, statusCode |-> status, id |-> id]

\* new Error(...) that is not a SonarrApiError.
PlainError(id) ==
    [kind |-> "Error", hasStatusCode |-> FALSE, statusCode |-> 0, id |-> id]

\* A thrown value that is not an Error at all (a string, a plain object).
NonErrorValue(id) ==
    [kind |-> "nonError", hasStatusCode |-> FALSE, statusCode |-> 0, id |-> id]

\* new Error('Unknown error') built by executeWithRetry itself.
UnknownError ==
    [kind |-> "Error", hasStatusCode |-> FALSE, statusCode |-> 0, id |-> 0]

\* Everything invocation number id of `operation` may throw.
Throwable(id) ==
    {SonarrApiError(TRUE, s, id) : s \in StatusCodes}
        \cup {SonarrApiError(FALSE, 0, id), PlainError(id), NonErrorValue(id)}

\* Everything `operation` may resolve with.
Values == {"success", "other"}

\* error instanceof Error
InstanceOfError(e) == e.kind \in {"Error", "SonarrApiError"}

\* error instanceof SonarrApiError
InstanceOfSonarrApiError(e) == e.kind = "SonarrApiError"

\* JavaScript truthiness of error.statusCode.
TruthyStatusCode(e) == e.hasStatusCode /\ e.statusCode # 0

\* ------------------------------------------------------- executeWithRetry

Min(a, b) == IF a <= b THEN a ELSE b

\* Mutant: every caught value is replaced by a fresh Error.
NormalizeThrown_AlwaysWraps(e) == UnknownError

\* lastError = error instanceof Error ? error : new Error('Unknown error')
NormalizeThrown(e) == IF InstanceOfError(e) THEN e ELSE UnknownError

\* Mutant: the comparison is <= 500, so a 500 is taken for a client error.
IsClientError_Through500(e) ==
    InstanceOfSonarrApiError(e) /\ TruthyStatusCode(e) /\ e.statusCode <= 500

\* Mutant: only a 404 is taken for a client error.
IsClientError_NotFoundOnly(e) ==
    InstanceOfSonarrApiError(e) /\ TruthyStatusCode(e) /\ e.statusCode = 404

\* error instanceof SonarrApiError && error.statusCode && error.statusCode < 500
IsClientError(e) ==
    InstanceOfSonarrApiError(e) /\ TruthyStatusCode(e) /\ e.statusCode < 500

\* Mutant: the cap of 10000 ms is missing.
BackoffDelay_NoCap(a) == 1000 * (2 ^ a)

\* Math.min(1000 * Math.pow(2, attempt), 10000)
BackoffDelay(a) == Min(1000 * (2 ^ a), 10000)

\* if (attempt === retries) break;
BudgetExhausted(a, n) == a = n

\* The loop condition: attempt <= retries
LoopCondition(a, n) == a <= n

RetryInit ==
    /\ rPc = "idle"
    /\ retries = 0
    /\ attempt = 0
    /\ lastError = Undefined
    /\ result = "none"
    /\ outcomes = << >>
    /\ delays = << >>

\* executeWithRetry(operation, retries) is called: the loop starts at attempt 0.
ExecuteWithRetry(n) ==
    /\ rPc = "idle"
    /\ rPc' = "attempt"
    /\ retries' = n
    /\ attempt' = 0
    /\ UNCHANGED <<lastError, result, outcomes, delays>>
    /\ UNCHANGED <<dispatchVars, historyVars, connectionVars, outerVars>>

\* `return await operation()` and the operation resolves with v.
OperationResolves(v) ==
    /\ rPc = "attempt"
    /\ outcomes' = Append(outcomes, [ok |-> TRUE, value |-> v, thrown |-> Undefined])
    /\ result' = v
    /\ rPc' = "resolved"
    /\ UNCHANGED <<retries, attempt, lastError, delays>>
    /\ UNCHANGED <<dispatchVars, historyVars, connectionVars, outerVars>>

\* The operation throws e: the catch block, up to the break or the setTimeout.
OperationRejects(e) ==
    /\ rPc = "attempt"
    /\ outcomes' = Append(outcomes, [ok |-> FALSE, value |-> "none", thrown |-> e])
    /\ lastError' = NormalizeThrown(e)
    /\ IF BudgetExhausted(attempt, retries) \/ IsClientError(e)
         THEN /\ rPc' = "rejected"          \* break; throw lastError
              /\ UNCHANGED delays
         ELSE /\ rPc' = "backoff"
              /\ delays' = Append(delays, BackoffDelay(attempt))
    /\ UNCHANGED <<retries, attempt, result>>
    /\ UNCHANGED <<dispatchVars, historyVars, connectionVars, outerVars>>

\* The setTimeout of the backoff fires: attempt++ and the loop goes round.
BackoffElapsed ==
    /\ rPc = "backoff"
    /\ attempt' = attempt + 1
    /\ rPc' = IF LoopCondition(attempt + 1, retries) THEN "attempt" ELSE "rejected"
    /\ UNCHANGED <<retries, lastError, result, outcomes, delays>>
    /\ UNCHANGED <<dispatchVars, historyVars, connectionVars, outerVars>>

RetryNext ==
    \/ \E n \in 0..MaxRetries : ExecuteWithRetry(n)
    \/ \E v \in Values : OperationResolves(v)
    \/ \E e \in Throwable(Len(outcomes) + 1) : OperationRejects(e)
    \/ BackoffElapsed

\* ------------------------------------------------------------ JS strings

\* A string the code parses or lower-cases is a sequence of characters.
Digits == <<"0", "1", "2", "3", "4", "5", "6", "7", "8", "9">>

UpperCase ==
    <<"A", "B", "C", "D", "E", "F", "G", "H", "I", "J", "K", "L", "M",
      "N", "O", "P", "Q", "R", "S", "T", "U", "V", "W", "X", "Y", "Z">>

LowerCase ==
    <<"a", "b", "c", "d", "e", "f", "g", "h", "i", "j", "k", "l", "m",
      "n", "o", "p", "q", "r", "s", "t", "u", "v", "w", "x", "y", "z">>

IsDigit(c) == \E d \in 1..Len(Digits) : Digits[d] = c

DigitValue(c) == (CHOOSE d \in 1..Len(Digits) : Digits[d] = c) - 1

IsWhitespace(c) == c \in {" ", "\t", "\n"}

\* One character of String.prototype.toLowerCase.
LowerChar(c) ==
    IF \E i \in 1..Len(UpperCase) : UpperCase[i] = c
      THEN LowerCase[CHOOSE i \in 1..Len(UpperCase) : UpperCase[i] = c]
      ELSE c

\* String.prototype.toLowerCase
ToLowerCase(s) == [i \in 1..Len(s) |-> LowerChar(s[i])]

RECURSIVE SkipWhitespace(_)
SkipWhitespace(s) ==
    IF s # << >> /\ IsWhitespace(Head(s)) THEN SkipWhitespace(Tail(s)) ELSE s

RECURSIVE ParseDigits(_, _)
ParseDigits(s, acc) ==
    IF s # << >> /\ IsDigit(Head(s))
      THEN ParseDigits(Tail(s), acc * 10 + DigitValue(Head(s)))
      ELSE acc

\* parseInt(s) in radix 10: leading whitespace is skipped, a sign is taken,
\* then the longest prefix of digits; whatever follows is ignored; NaN when
\* there is no digit to take.
ParseInt(s) ==
    LET t == SkipWhitespace(s)
        signed == t # << >> /\ Head(t) \in {"-", "+"}
        u == IF signed THEN Tail(t) ELSE t
    IN  IF u = << >> \/ ~IsDigit(Head(u))
          THEN [isNaN |-> TRUE, value |-> 0]
          ELSE [isNaN |-> FALSE,
                value |-> (IF signed /\ Head(t) = "-" THEN -1 ELSE 1) * ParseDigits(u, 0)]

\* The characters of s as one string (template-literal interpolation).
RECURSIVE JoinChars(_)
JoinChars(s) == IF s = << >> THEN "" ELSE Head(s) \o JoinChars(Tail(s))

\* Array.prototype.join(', ') over strings.
RECURSIVE JoinComma(_)
JoinComma(s) ==
    IF s = << >> THEN ""
    ELSE IF Len(s) = 1 THEN Head(s)
    ELSE Head(s) \o ", " \o JoinComma(Tail(s))

\* ------------------------------------------------------------ errors

\* An Error object as the tools and resources see it.
ErrorObject(kind, message, hasStatus, status) ==
    [kind |-> kind, message |-> message, hasStatusCode |-> hasStatus, statusCode |-> status]

\* new Error(message)
NewError(message) == ErrorObject("Error", message, FALSE, 0)

\* A TypeError raised by the JavaScript runtime inside a body.
TypeError(message) == ErrorObject("TypeError", message, FALSE, 0)

\* The body of an error response: a string, an object with a message and/or
\* an error field ("" stands for an absent or empty, hence falsy, field), or
\* nothing.
ResponseData(type, str, message, error) ==
    [type |-> type, str |-> str, message |-> message, error |-> error]

\* The error axios hands to the response interceptor.
AxiosError(hasResponse, status, statusText, data, hasRequest, message) ==
    [hasResponse |-> hasResponse, status |-> status, statusText |-> statusText,
     data |-> data, hasRequest |-> hasRequest, message |-> message]

\* A timeout or refused connection: the request was sent, nothing came back.
NoResponseFailure ==
    AxiosError(FALSE, 0, "", ResponseData("undefined", "", "", ""), TRUE,
               "timeout of 30000ms exceeded")

\* The failures the upstream connection produces in this model.
AxiosErrors ==
    { NoResponseFailure,
      AxiosError(TRUE, 404, "Not Found", ResponseData("object", "", "NotFound", ""),
                 TRUE, "Request failed with status code 404"),
      AxiosError(TRUE, 500, "Internal Server Error", ResponseData("object", "", "", ""),
                 TRUE, "Request failed with status code 500") }

\* Every shape of failure the interceptor distinguishes: a response with or
\* without a body (a string, or an object with a message and/or an error
\* field), no response to a request that was sent, and a failure before any
\* request was sent, with or without a message of its own.
TransportFailures ==
    { AxiosError(TRUE, st[1], st[2], data, TRUE, "Request failed")
        : st \in {<<404, "Not Found">>, <<500, "Internal Server Error">>},
          data \in { ResponseData("undefined", "", "", ""),
                     ResponseData("string", "Bad Gateway", "", ""),
                     ResponseData("string", "", "", ""),
                     ResponseData("object", "", "NotFound", ""),
                     ResponseData("object", "", "", "Unauthorized"),
                     ResponseData("object", "", "NotFound", "Unauthorized"),
                     ResponseData("object", "", "", "") } }
      \cup { NoResponseFailure }
      \cup { AxiosError(FALSE, 0, "", ResponseData("undefined", "", "", ""), FALSE, m)
               : m \in {"Invalid URL", ""} }

NoResponseMessage == "No response from Sonarr server"

\* Mutant: the error field of the body is preferred to its message field.
ExtractErrorMessage_ErrorFieldFirst(error) ==
    IF error.hasResponse
      THEN IF error.data.type = "string" THEN error.data.str
           ELSE IF error.data.type = "object" /\ error.data.error # ""
             THEN error.data.error
           ELSE IF error.data.type = "object" /\ error.data.message # ""
             THEN error.data.message
           ELSE "HTTP " \o ToString(error.status) \o ": " \o error.statusText
    ELSE IF error.hasRequest THEN NoResponseMessage
    ELSE IF error.message # "" THEN error.message
    ELSE "Unknown error"

\* SonarrApiClient.extractErrorMessage
ExtractErrorMessage(error) ==
    IF error.hasResponse
      THEN IF error.data.type = "string" THEN error.data.str
           ELSE IF error.data.type = "object" /\ error.data.message # ""
             THEN error.data.message
           ELSE IF error.data.type = "object" /\ error.data.error # ""
             THEN error.data.error
           ELSE "HTTP " \o ToString(error.status) \o ": " \o error.statusText
    ELSE IF error.hasRequest THEN NoResponseMessage
    ELSE IF error.message # "" THEN error.message
    ELSE "Unknown error"

\* The response interceptor's error handler: throw new SonarrApiError(message,
\* error.response?.status, error.response?.data).
InterceptResponseError(error) ==
    ErrorObject("SonarrApiError", ExtractErrorMessage(error), error.hasResponse,
                error.status)
      @@ [response |-> error.data]

\* error instanceof Error ? error.message : 'Unknown error'
CaughtMessage(e) ==
    IF e.kind \in {"Error", "TypeError", "SonarrApiError"} THEN e.message
    ELSE "Unknown error"

\* ------------------------------------------------------------ registries

ToolNames ==
    {"add_series", "list_series", "update_series", "remove_series", "search_series",
     "list_episodes", "search_episodes", "monitor_episodes", "manage_queue",
     "get_history", "system_status", "get_calendar", "search_missing_episodes",
     "get_wanted"}

ResourceUris ==
    {"sonarr://series/collection", "sonarr://calendar/upcoming",
     "sonarr://system/status", "sonarr://queue/current", "sonarr://history/recent",
     "sonarr://wanted/missing", "sonarr://config/quality-profiles",
     "sonarr://config/root-folders"}

\* The registry object literal `{}`.  An entry is the tool or resource object
\* registered under the key; the object is identified by the number of the
\* initialisation run that created it.
EmptyRegistry == [key \in {} |-> 0]

\* The run that created the registered objects (0: nothing registered yet).
Generation(registry) ==
    IF DOMAIN registry = {} THEN 0
    ELSE registry[CHOOSE key \in DOMAIN registry : TRUE]

\* Mutant: a key that is already registered keeps its entry, and the last
\* key of a run is never stored.
Register_SkipsOne(registry, keys, object) ==
    [key \in DOMAIN registry \cup (keys \ {CHOOSE k \in keys : TRUE}) |->
        IF key \in DOMAIN registry THEN registry[key] ELSE object]

\* registry[key] = object, for each key of one initialisation run.
Register(registry, keys, object) ==
    [key \in DOMAIN registry \cup keys |->
        IF key \in keys THEN object ELSE registry[key]]

\* Keys every object literal `{}` inherits from Object.prototype; each of
\* these members is truthy.
ObjectPrototypeKeys ==
    {"constructor", "toString", "valueOf", "hasOwnProperty", "__proto__"}

\* registry[key] on a plain object: "own" for a registered entry, "inherited"
\* for a member of Object.prototype, "undefined" otherwise.
Lookup(registry, key) ==
    IF key \in DOMAIN registry THEN "own"
    ELSE IF key \in ObjectPrototypeKeys THEN "inherited"
    ELSE "undefined"

\* The names and URIs requests ask for.
RequestedToolNames == ToolNames \cup {"unknown_tool", "constructor"}

RequestedResourceUris == ResourceUris \cup {"sonarr://unknown/resource", "constructor"}

\* ------------------------------------------------------- upstream data

LookupBreakingBad == [title |-> "Breaking Bad", titleSlug |-> "breaking-bad", tvdbId |-> 81189]

LookupBetterCall == [title |-> "Better Call Saul", titleSlug |-> "better-call-saul", tvdbId |-> 273181]

ProfileHD == [id |-> 1, name |-> <<"H", "D">>]

Profile4K == [id |-> 2, name |-> <<"4", "K">>]

SeriesAlpha ==
    [id |-> 1, title |-> "Alpha", year |-> 2008, monitored |-> TRUE,
     status |-> "continuing", qualityProfileId |-> 1]

SeriesBeta ==
    [id |-> 2, title |-> "Beta", year |-> 2015, monitored |-> FALSE,
     status |-> "ended", qualityProfileId |-> 1]

\* A series as GET /series lists it; the title is kept as its characters.
ListedSeries(id, title, monitored, status) ==
    [id |-> id, title |-> title, monitored |-> monitored, status |-> status]

ListedAlpha == ListedSeries(1, <<"A", "l", "p", "h", "a">>, TRUE, "continuing")

ListedBeta == ListedSeries(2, <<"B", "e", "t", "a">>, FALSE, "ended")

ListedGamma == ListedSeries(3, <<"G", "a", "m", "m", "a">>, TRUE, "ended")

Episode(id, season, hasFile, monitored) ==
    [id |-> id, seasonNumber |-> season, hasFile |-> hasFile, monitored |-> monitored]

\* A queue record; hasSeries tells whether upstream included item.series.
QueueItem(id, hasSeries) == [id |-> id, hasSeries |-> hasSeries]

\* queue.records.map(item => ... item.series.title ...) reads a property of
\* undefined when a record comes without its series.
QueueMapThrows(queue) == \E k \in 1..Len(queue.records) : ~queue.records[k].hasSeries

Page(records, total) ==
    [records |-> records, totalRecords |-> total, page |-> 1, pageSize |-> 20]

\* What a Client call resolves with when its request succeeds.
SuccessData(call) ==
    CASE call.op = "searchSeries" ->
           {<< >>, <<LookupBreakingBad>>, <<LookupBreakingBad, LookupBetterCall>>}
      [] call.op = "getQualityProfiles" ->
           {<< >>, <<ProfileHD>>, <<ProfileHD, Profile4K>>}
      [] call.op = "getLanguageProfiles" -> {<< >>, <<[id |-> 3]>>}
      [] call.op \in {"addSeries", "getSeriesById", "updateSeries"} -> {SeriesAlpha}
      [] call.op = "getSeries" -> {<< >>, <<ListedAlpha, ListedBeta, ListedGamma>>}
      [] call.op = "getEpisodesBySeries" ->
           {<< >>,
            <<Episode(11, 1, TRUE, TRUE)>>,
            <<Episode(11, 1, FALSE, TRUE), Episode(12, 1, FALSE, FALSE),
              Episode(13, 2, FALSE, TRUE)>>}
      [] call.op = "getEpisodeById" ->
           {Episode(call.arg, 1, FALSE, m) : m \in BOOLEAN}
      [] call.op = "getQueue" ->
           {Page(<< >>, 0), Page(<<QueueItem(7, TRUE)>>, 1), Page(<<QueueItem(8, FALSE)>>, 1)}
      [] call.op \in {"getHistory", "getWantedMissing", "getWantedCutoffUnmet"} ->
           {Page(<< >>, 0), Page(<<[id |-> 7]>>, 1)}
      [] call.op \in {"getCalendar", "getDiskSpace", "getRootFolders"} ->
           {<< >>, <<[id |-> 5]>>}
      [] call.op = "getSystemStatus" ->
           {[version |-> "4.0.0", osName |-> "ubuntu", osVersion |-> "22.04"]}
      [] OTHER -> {"void"}

\* The HTTP request an endpoint method sends: exactly one per call.
HttpRequest(call, index) ==
    [call |-> index,
     method |->
        CASE call.op \in {"addSeries", "searchEpisodes", "searchSeriesMissing",
                          "searchAllMissing"} -> "POST"
          [] call.op \in {"updateSeries", "updateEpisodes"} -> "PUT"
          [] call.op \in {"deleteSeries", "removeFromQueue"} -> "DELETE"
          [] OTHER -> "GET"]

\* ------------------------------------------------------------- arguments

\* execute(undefined): no args object at all.
ArgsUndefined == [defined |-> FALSE, has |-> {}]

\* An args object with the fields named in `has` set.
Args(has, fields) == [defined |-> TRUE, has |-> has] @@ fields

Has(args, field) == args.defined /\ field \in args.has

\* JavaScript truthiness of an integer argument.
TruthyInt(args, field) == Has(args, field) /\ args[field] # 0

\* The qualityProfile strings add_series is tried with.
QualityProfileInputs ==
    {<<"H", "D">>, <<"h", "d">>, <<"S", "D">>, <<"2">>, <<"4", "K">>, <<"4", "x">>, << >>}

\* The optional add_series arguments: << >> when the caller leaves one out.
OptionalFlags == {<< >>, <<TRUE>>, <<FALSE>>}

OptionalMonitorModes == {<< >>, <<"future">>}

\* add_series args with the optional fields the schema allows.
AddSeriesOptionArgs ==
    {Args({"query", "rootFolder", "qualityProfile"}
            \cup (IF sf = << >> THEN {} ELSE {"seasonFolder"})
            \cup (IF m = << >> THEN {} ELSE {"monitor"})
            \cup (IF sm = << >> THEN {} ELSE {"searchForMissingEpisodes"}),
          [query |-> "Breaking Bad", rootFolder |-> "/tv", qualityProfile |-> <<"H", "D">>,
           seasonFolder |-> (sf = <<TRUE>>),
           monitor |-> (IF m = << >> THEN "" ELSE m[1]),
           searchForMissingEpisodes |-> (sm = <<TRUE>>)])
        : sf \in OptionalFlags, m \in OptionalMonitorModes, sm \in OptionalFlags}

AddSeriesArgs ==
    {Args({"query", "rootFolder", "qualityProfile"},
          [query |-> "Breaking Bad", rootFolder |-> "/tv", qualityProfile |-> q])
        : q \in QualityProfileInputs}
      \cup {Args({"query", "rootFolder"},
                 [query |-> "Breaking Bad", rootFolder |-> "/tv", qualityProfile |-> << >>])}
      \cup AddSeriesOptionArgs

IntArgs(fields, values) ==
    {Args(has, [seriesId |-> v, seasonNumber |-> w, queueId |-> v, action |-> "remove"])
        : has \in SUBSET fields, v \in values, w \in values}

\* The filters of list_series (<< >>: filter left out).
OptionalStatuses == {<< >>, <<"continuing">>, <<"ended">>}

OptionalSearchTerms == {<< >>, <<<<"a", "l">>>>, <<<<"E", "T">>>>, <<<<"a">>>>, <<<<"z">>>>}

ListSeriesArgs ==
    {Args((IF mo = << >> THEN {} ELSE {"monitored"})
            \cup (IF st = << >> THEN {} ELSE {"status"})
            \cup (IF se = << >> THEN {} ELSE {"search"}),
          [monitored |-> (mo = <<TRUE>>),
           status |-> (IF st = << >> THEN "" ELSE st[1]),
           search |-> (IF se = << >> THEN << >> ELSE se[1])])
        : mo \in OptionalFlags, st \in OptionalStatuses, se \in OptionalSearchTerms}

\* update_series args: seriesId with or without the two settings.
UpdateSeriesArgs ==
    {Args({"seriesId"}
            \cup (IF mo = << >> THEN {} ELSE {"monitored"})
            \cup (IF q = << >> THEN {} ELSE {"qualityProfileId"}),
          [seriesId |-> 1, monitored |-> (mo = <<TRUE>>),
           qualityProfileId |-> (IF q = << >> THEN 0 ELSE q[1])])
        : mo \in OptionalFlags, q \in {<< >>, <<2>>}}
      \cup {Args({}, [seriesId |-> 1, monitored |-> FALSE, qualityProfileId |-> 0])}

\* remove_series args: seriesId with deleteFiles left out, false or true.
RemoveSeriesArgs ==
    {Args({"seriesId"} \cup (IF d = << >> THEN {} ELSE {"deleteFiles"}),
          [seriesId |-> 1, deleteFiles |-> (d = <<TRUE>>)])
        : d \in OptionalFlags}
      \cup {Args({}, [seriesId |-> 1, deleteFiles |-> FALSE])}

\* The args objects each tool is executed with (besides undefined).
ArgsFor(tool) ==
    {ArgsUndefined} \cup
    CASE tool = "add_series" -> AddSeriesArgs
      [] tool = "list_series" -> ListSeriesArgs
      [] tool \in {"search_missing_episodes", "list_episodes"} ->
           IntArgs({"seriesId", "seasonNumber"}, {0, 1})
      [] tool = "update_series" -> UpdateSeriesArgs
      [] tool = "remove_series" -> RemoveSeriesArgs
      [] tool = "manage_queue" ->
           {Args(has, [action |-> a, queueId |-> q])
              : has \in {{"action"}, {"action", "queueId"}},
                a \in {"list", "remove", "retry"},
                q \in {0, 7}}
      [] tool \in {"search_episodes", "monitor_episodes"} ->
           {Args({"episodeIds", "monitored"}, [episodeIds |-> ids, monitored |-> TRUE])
              : ids \in {<< >>, <<11>>, <<11, 12>>}}
             \cup {Args({"monitored"}, [episodeIds |-> << >>, monitored |-> TRUE])}
      [] tool = "get_wanted" ->
           {Args({"type"}, [type |-> t]) : t \in {"missing", "cutoff"}}
             \cup {Args({}, [type |-> "missing"])}
      [] tool = "search_series" -> {Args({"query"}, [query |-> "Breaking Bad"])}
      [] OTHER -> {Args({}, [query |-> ""])}

\* --------------------------------------------------------------- results

\* { content: [{ type: 'text', text }], isError: true }
ToolError(text) ==
    [content |-> <<[type |-> "text", text |-> text]>>, isError |-> "true"]

\* { content: [{ type: 'text', text }] } : isError is left unset.
ToolText(text) ==
    [content |-> <<[type |-> "text", text |-> text]>>, isError |-> "unset"]

\* { content: [{ type: 'text', text }, { type: 'json', json }] }
ToolJson(text, json) ==
    [content |-> <<[type |-> "text", text |-> text], [type |-> "json", json |-> json]>>,
     isError |-> "unset"]

\* { contents: [{ uri, mimeType, text: JSON.stringify(data) }] }
Snapshot(uri, data) ==
    [contents |-> <<[uri |-> uri, mimeType |-> "application/json", json |-> data]>>]

\* What a body does next.
Call(op, arg) == [do |-> "call", ops |-> <<[op |-> op, arg |-> arg]>>]

CallAll(ops) == [do |-> "call", ops |-> ops]

Return(value) == [do |-> "return", result |-> value]

Throw(error) == [do |-> "throw", error |-> error]

ReadOfUndefined == TypeError("Cannot read properties of undefined")

\* ------------------------------------------------------------ tool bodies
\* A body is a function of the args and of the values its awaits have
\* resolved with so far (g): it answers with the next Client call, the value
\* it returns, or the error it throws.

\* An optional argument as handed to the Client: << >> for undefined.
Opt(args, field) == IF Has(args, field) THEN <<args[field]>> ELSE << >>

\* `${value}` of an optional integer argument.
OptText(args, field) == IF Has(args, field) THEN ToString(args[field]) ELSE "undefined"

\* Mutant: the empty search result is not detected.
NoSearchResults_Never(searchResults) == FALSE

\* if (searchResults.length === 0)
NoSearchResults(searchResults) == Len(searchResults) = 0

\* isNaN(parseInt(args.qualityProfile)); parseInt(undefined) is NaN.
ProfileGivenByName(args) ==
    ~Has(args, "qualityProfile") \/ ParseInt(args.qualityProfile).isNaN

\* qualityProfiles.find(p => p.name.toLowerCase() === name.toLowerCase()):
\* the index of the first match, 0 when there is none.
FindProfile(qualityProfiles, name) ==
    LET matches == {i \in 1..Len(qualityProfiles) :
                      ToLowerCase(qualityProfiles[i].name) = ToLowerCase(name)}
    IN  IF matches = {} THEN 0
        ELSE CHOOSE i \in matches : \A j \in matches : i <= j

ProfileNames(qualityProfiles) ==
    [i \in 1..Len(qualityProfiles) |-> JoinChars(qualityProfiles[i].name)]

\* Mutant: an omitted seasonFolder is sent as false.
AddSeriesPayload_NoSeasonFolderDefault(args, seriesData, qualityProfileId, languageProfiles) ==
    [title |-> seriesData.title,
     titleSlug |-> seriesData.titleSlug,
     tvdbId |-> seriesData.tvdbId,
     qualityProfileId |-> qualityProfileId,
     languageProfileId |->
        IF languageProfiles # << >> THEN languageProfiles[1].id ELSE 1,
     rootFolderPath |-> args.rootFolder,
     monitored |-> TRUE,
     seasonFolder |-> Has(args, "seasonFolder") /\ args.seasonFolder,
     addOptions |->
        [monitor |-> IF Has(args, "monitor") THEN args.monitor ELSE "all",
         searchForMissingEpisodes |->
            Has(args, "searchForMissingEpisodes") /\ args.searchForMissingEpisodes]]

\* The object handed to client.addSeries.
AddSeriesPayload(args, seriesData, qualityProfileId, languageProfiles) ==
    [title |-> seriesData.title,
     titleSlug |-> seriesData.titleSlug,
     tvdbId |-> seriesData.tvdbId,
     qualityProfileId |-> qualityProfileId,
     languageProfileId |->
        IF languageProfiles # << >> /\ languageProfiles[1].id # 0
          THEN languageProfiles[1].id ELSE 1,
     rootFolderPath |-> args.rootFolder,
     monitored |-> TRUE,
     seasonFolder |-> IF Has(args, "seasonFolder") THEN args.seasonFolder ELSE TRUE,
     addOptions |->
        [monitor |-> IF Has(args, "monitor") /\ args.monitor # ""
                       THEN args.monitor ELSE "all",
         searchForMissingEpisodes |->
            Has(args, "searchForMissingEpisodes") /\ args.searchForMissingEpisodes]]

AddSeriesBody(args, g) ==
    IF ~args.defined THEN Throw(ReadOfUndefined)
    ELSE IF Len(g) = 0 THEN Call("searchSeries", args.query)
    ELSE IF NoSearchResults(g[1])
      THEN Return(ToolError("No series found matching \"" \o args.query \o "\""))
    ELSE IF Len(g) = 1 THEN Call("getQualityProfiles", "")
    ELSE
      LET qualityProfiles == g[2]
          byName == ProfileGivenByName(args)
          found == IF byName /\ Has(args, "qualityProfile")
                     THEN FindProfile(qualityProfiles, args.qualityProfile) ELSE 0
      IN  IF byName /\ ~Has(args, "qualityProfile") /\ qualityProfiles # << >>
            THEN Throw(ReadOfUndefined)   \* undefined.toLowerCase()
          ELSE IF byName /\ found = 0
            THEN Return(ToolError(
                   "Quality profile \""
                     \o (IF Has(args, "qualityProfile")
                           THEN JoinChars(args.qualityProfile) ELSE "undefined")
                     \o "\" not found. Available profiles: "
                     \o JoinComma(ProfileNames(qualityProfiles))))
          ELSE IF Len(g) = 2 THEN Call("getLanguageProfiles", "")
          ELSE IF g[1] = << >> THEN Throw(ReadOfUndefined)  \* searchResults[0].title
          ELSE IF Len(g) = 3
            THEN Call("addSeries",
                      AddSeriesPayload(args, g[1][1],
                         IF byName THEN qualityProfiles[found].id
                                   ELSE ParseInt(args.qualityProfile).value,
                         g[3]))
          ELSE Return(ToolJson(
                 "Successfully added series: " \o g[4].title
                    \o " (" \o ToString(g[4].year) \o ")",
                 g[4]))

\* String.prototype.includes
Includes(text, part) ==
    \E i \in 0..(Len(text) - Len(part)) : SubSeq(text, i + 1, i + Len(part)) = part

\* Mutant: the title is compared without lower-casing it.
TitleMatches_CaseSensitive(title, search) == Includes(title, ToLowerCase(search))

\* s.title.toLowerCase().includes(args.search.toLowerCase())
TitleMatches(title, search) == Includes(ToLowerCase(title), ToLowerCase(search))

ListSeriesBody(args, g) ==
    IF Len(g) = 0 THEN Call("getSeries", "")
    ELSE IF ~args.defined THEN Throw(ReadOfUndefined)
    ELSE
      LET byMonitored ==
            IF Has(args, "monitored")
              THEN SelectSeq(g[1], LAMBDA s : s.monitored = args.monitored) ELSE g[1]
          byStatus ==
            IF Has(args, "status") /\ args.status # ""
              THEN SelectSeq(byMonitored, LAMBDA s : s.status = args.status)
              ELSE byMonitored
          filteredSeries ==
            IF Has(args, "search") /\ args.search # << >>
              THEN SelectSeq(byStatus, LAMBDA s : TitleMatches(s.title, args.search))
              ELSE byStatus
      IN  Return(ToolJson(
                 "Found " \o ToString(Len(filteredSeries)) \o " series"
                   \o (IF Has(args, "monitored")
                         THEN " (monitored: "
                                \o (IF args.monitored THEN "true" ELSE "false") \o ")"
                         ELSE "")
                   \o (IF Has(args, "status") /\ args.status # ""
                         THEN " (status: " \o args.status \o ")" ELSE ""),
                 filteredSeries))

\* Mutant: unmonitored episodes are searched for as well.
IsMissingInSeason_IgnoresMonitored(e, seasonNumber) ==
    e.seasonNumber = seasonNumber /\ ~e.hasFile

\* e.seasonNumber === args.seasonNumber && !e.hasFile && e.monitored
IsMissingInSeason(e, seasonNumber) ==
    e.seasonNumber = seasonNumber /\ ~e.hasFile /\ e.monitored

SearchMissingEpisodesBody(args, g) ==
    IF ~args.defined THEN Throw(ReadOfUndefined)
    ELSE IF TruthyInt(args, "seriesId")
      THEN IF TruthyInt(args, "seasonNumber")
             THEN IF Len(g) = 0 THEN Call("getEpisodesBySeries", args.seriesId)
                  ELSE
                    LET seasonEpisodes ==
                          SelectSeq(g[1], LAMBDA e : IsMissingInSeason(e, args.seasonNumber))
                    IN  IF Len(seasonEpisodes) > 0
                          THEN IF Len(g) = 1
                                 THEN Call("searchEpisodes",
                                           [i \in 1..Len(seasonEpisodes) |-> seasonEpisodes[i].id])
                                 ELSE Return(ToolText(
                                        "Started search for " \o ToString(Len(seasonEpisodes))
                                          \o " missing episodes in season "
                                          \o ToString(args.seasonNumber)))
                          ELSE Return(ToolText("No missing episodes found in season "
                                                 \o ToString(args.seasonNumber)))
             ELSE IF Len(g) = 0 THEN Call("searchSeriesMissing", args.seriesId)
                  ELSE Return(ToolText("Started search for missing episodes in series ID "
                                         \o ToString(args.seriesId)))
      ELSE IF Len(g) = 0 THEN Call("searchAllMissing", "")
           ELSE Return(ToolText("Started search for all missing episodes across all series"))

\* Mutant: the monitored argument is not applied to the fetched record.
UpdateSeriesBody_KeepsMonitored(args, g) ==
    IF ~args.defined THEN Throw(ReadOfUndefined)
    ELSE IF Len(g) = 0 THEN Call("getSeriesById", Opt(args, "seriesId"))
    ELSE IF Len(g) = 1
      THEN Call("updateSeries",
                IF Has(args, "qualityProfileId")
                  THEN [g[1] EXCEPT !.qualityProfileId = args.qualityProfileId] ELSE g[1])
    ELSE Return(ToolText("Successfully updated series: " \o g[2].title))

UpdateSeriesBody(args, g) ==
    IF ~args.defined THEN Throw(ReadOfUndefined)
    ELSE IF Len(g) = 0 THEN Call("getSeriesById", Opt(args, "seriesId"))
    ELSE IF Len(g) = 1
      THEN LET m == IF Has(args, "monitored")
                      THEN [g[1] EXCEPT !.monitored = args.monitored] ELSE g[1]
               q == IF Has(args, "qualityProfileId")
                      THEN [m EXCEPT !.qualityProfileId = args.qualityProfileId] ELSE m
           IN  Call("updateSeries", q)
    ELSE Return(ToolText("Successfully updated series: " \o g[2].title))

\* Mutant: the delete is issued without the lookup.
RemoveSeriesBody_SkipsLookup(args, g) ==
    IF ~args.defined THEN Throw(ReadOfUndefined)
    ELSE IF Len(g) = 0
      THEN Call("deleteSeries",
                [id |-> Opt(args, "seriesId"),
                 deleteFiles |-> Has(args, "deleteFiles") /\ args.deleteFiles])
    ELSE Return(ToolText("Successfully removed series"))

RemoveSeriesBody(args, g) ==
    IF ~args.defined THEN Throw(ReadOfUndefined)
    ELSE IF Len(g) = 0 THEN Call("getSeriesById", Opt(args, "seriesId"))
    ELSE IF Len(g) = 1
      THEN Call("deleteSeries",
                [id |-> Opt(args, "seriesId"),
                 deleteFiles |-> Has(args, "deleteFiles") /\ args.deleteFiles])
    ELSE Return(ToolText(
           "Successfully removed series: " \o g[1].title
             \o (IF Has(args, "deleteFiles") /\ args.deleteFiles
                   THEN " (files deleted)" ELSE "")))

SearchSeriesBody(args, g) ==
    IF ~args.defined THEN Throw(ReadOfUndefined)
    ELSE IF Len(g) = 0 THEN Call("searchSeries", Opt(args, "query"))
    ELSE Return(ToolJson(
           "Found " \o ToString(Len(g[1])) \o " series matching \""
             \o (IF Has(args, "query") THEN args.query ELSE "undefined") \o "\"",
           g[1]))

ListEpisodesBody(args, g) ==
    IF ~args.defined THEN Throw(ReadOfUndefined)
    ELSE IF Len(g) = 0 THEN Call("getEpisodesBySeries", Opt(args, "seriesId"))
    ELSE
      LET bySeason ==
            IF Has(args, "seasonNumber")
              THEN SelectSeq(g[1], LAMBDA e : e.seasonNumber = args.seasonNumber)
              ELSE g[1]
          byMonitored ==
            IF Has(args, "monitored")
              THEN SelectSeq(bySeason, LAMBDA e : e.monitored = args.monitored)
              ELSE bySeason
          episodes ==
            IF Has(args, "hasFile")
              THEN SelectSeq(byMonitored, LAMBDA e : e.hasFile = args.hasFile)
              ELSE byMonitored
      IN  Return(ToolJson("Found " \o ToString(Len(episodes)) \o " episodes", episodes))

SearchEpisodesBody(args, g) ==
    IF ~args.defined THEN Throw(ReadOfUndefined)
    ELSE IF Len(g) = 0 THEN Call("searchEpisodes", Opt(args, "episodeIds"))
    ELSE IF ~Has(args, "episodeIds") THEN Throw(ReadOfUndefined)  \* undefined.length
    ELSE Return(ToolText("Started search for " \o ToString(Len(args.episodeIds))
                           \o " episodes"))

\* Mutant: the fetched episodes are sent back as fetched.
MonitorEpisodesBody_SendsAsFetched(args, g) ==
    IF ~args.defined THEN Throw(ReadOfUndefined)
    ELSE IF ~Has(args, "episodeIds") THEN Throw(TypeError("args.episodeIds is not iterable"))
    ELSE IF Len(g) < Len(args.episodeIds)
      THEN Call("getEpisodeById", args.episodeIds[Len(g) + 1])
    ELSE IF Len(g) = Len(args.episodeIds)
      THEN Call("updateEpisodes", [i \in 1..Len(g) |-> g[i]])
    ELSE Return(ToolText(
           "Updated monitoring status for " \o ToString(Len(args.episodeIds))
             \o " episodes to " \o (IF args.monitored THEN "true" ELSE "false")))

MonitorEpisodesBody(args, g) ==
    IF ~args.defined THEN Throw(ReadOfUndefined)
    ELSE IF ~Has(args, "episodeIds") THEN Throw(TypeError("args.episodeIds is not iterable"))
    ELSE IF Len(g) < Len(args.episodeIds)
      THEN Call("getEpisodeById", args.episodeIds[Len(g) + 1])
    ELSE IF Len(g) = Len(args.episodeIds)
      THEN Call("updateEpisodes",
                [i \in 1..Len(g) |-> [g[i] EXCEPT !.monitored = args.monitored]])
    ELSE Return(ToolText(
           "Updated monitoring status for " \o ToString(Len(args.episodeIds))
             \o " episodes to " \o (IF args.monitored THEN "true" ELSE "false")))

ManageQueueBody(args, g) ==
    IF ~args.defined THEN Throw(ReadOfUndefined)
    ELSE IF Has(args, "action") /\ args.action = "list"
      THEN IF Len(g) = 0 THEN Call("getQueue", "")
           ELSE IF QueueMapThrows(g[1]) THEN Throw(ReadOfUndefined)
           ELSE Return(ToolJson("Found " \o ToString(Len(g[1].records))
                                  \o " items in download queue", g[1].records))
    ELSE IF Has(args, "action") /\ args.action = "remove" /\ TruthyInt(args, "queueId")
      THEN IF Len(g) = 0 THEN Call("removeFromQueue", args.queueId)
           ELSE Return(ToolText("Removed item " \o ToString(args.queueId) \o " from queue"))
    ELSE Return(ToolError("Invalid action or missing queueId for remove action"))

\* Math.ceil(totalRecords / pageSize)
PageCount(page) == (page.totalRecords + page.pageSize - 1) \div page.pageSize

GetHistoryBody(args, g) ==
    IF ~args.defined THEN Throw(ReadOfUndefined)
    ELSE IF Len(g) = 0 THEN Call("getHistory", "")
    ELSE Return(ToolJson(
           "Found " \o ToString(g[1].totalRecords) \o " history items (page "
             \o ToString(g[1].page) \o "/" \o ToString(PageCount(g[1])) \o ")",
           g[1].records))

\* execute() takes no argument here.
SystemStatusBody(args, g) ==
    IF Len(g) = 0
      THEN CallAll(<<[op |-> "getSystemStatus", arg |-> ""],
                     [op |-> "getDiskSpace", arg |-> ""]>>)
      ELSE Return(ToolJson(
             "Sonarr " \o g[1][1].version \o " running on " \o g[1][1].osName
               \o " " \o g[1][1].osVersion,
             g[1]))

GetCalendarBody(args, g) ==
    IF ~args.defined THEN Throw(ReadOfUndefined)
    ELSE IF Len(g) = 0 THEN Call("getCalendar", "")
    ELSE Return(ToolJson("Found " \o ToString(Len(g[1])) \o " upcoming episodes", g[1]))

GetWantedBody(args, g) ==
    IF ~args.defined THEN Throw(ReadOfUndefined)
    ELSE IF Len(g) = 0
      THEN IF Has(args, "type") /\ args.type = "cutoff"
             THEN Call("getWantedCutoffUnmet", "")
             ELSE Call("getWantedMissing", "")
    ELSE Return(ToolJson(
           "Found " \o ToString(g[1].totalRecords) \o " wanted episodes ("
             \o (IF Has(args, "type") /\ args.type # "" THEN args.type ELSE "missing")
             \o ") - page " \o ToString(g[1].page) \o "/" \o ToString(PageCount(g[1])),
           g[1].records))

\* The try block of tool.execute.
ToolBody(tool, args, g) ==
    CASE tool = "add_series" -> AddSeriesBody(args, g)
      [] tool = "list_series" -> ListSeriesBody(args, g)
      [] tool = "search_missing_episodes" -> SearchMissingEpisodesBody(args, g)
      [] tool = "update_series" -> UpdateSeriesBody(args, g)
      [] tool = "remove_series" -> RemoveSeriesBody(args, g)
      [] tool = "search_series" -> SearchSeriesBody(args, g)
      [] tool = "list_episodes" -> ListEpisodesBody(args, g)
      [] tool = "search_episodes" -> SearchEpisodesBody(args, g)
      [] tool = "monitor_episodes" -> MonitorEpisodesBody(args, g)
      [] tool = "manage_queue" -> ManageQueueBody(args, g)
      [] tool = "get_history" -> GetHistoryBody(args, g)
      [] tool = "system_status" -> SystemStatusBody(args, g)
      [] tool = "get_calendar" -> GetCalendarBody(args, g)
      [] tool = "get_wanted" -> GetWantedBody(args, g)

\* The <verb> of each tool's 'Failed to <verb>: ' message.
FailedVerb(tool) ==
    CASE tool = "add_series" -> "add series"
      [] tool = "list_series" -> "list series"
      [] tool = "search_missing_episodes" -> "search for missing episodes"
      [] tool = "update_series" -> "update series"
      [] tool = "remove_series" -> "remove series"
      [] tool = "search_series" -> "search series"
      [] tool = "list_episodes" -> "list episodes"
      [] tool = "search_episodes" -> "search episodes"
      [] tool = "monitor_episodes" -> "update episode monitoring"
      [] tool = "manage_queue" -> "manage queue"
      [] tool = "get_history" -> "get history"
      [] tool = "system_status" -> "get system status"
      [] tool = "get_calendar" -> "get calendar"
      [] tool = "get_wanted" -> "get wanted episodes"

Resolved(value) == [state |-> "resolved", result |-> value]

Rejected(error) == [state |-> "rejected", error |-> error]

\* Mutant: the catch block rethrows instead of returning an error result.
ToolCatch_Rethrows(tool, e) == Rejected(e)

\* The catch block of tool.execute.
ToolCatch(tool, e) ==
    Resolved(ToolError("Failed to " \o FailedVerb(tool) \o ": " \o CaughtMessage(e)))

\* ------------------------------------------------------- resource bodies

\* The <label> of each resource's 'Failed to read <label>: ' message.
ResourceLabel(uri) ==
    CASE uri = "sonarr://series/collection" -> "series collection"
      [] uri = "sonarr://calendar/upcoming" -> "calendar"
      [] uri = "sonarr://system/status" -> "system status"
      [] uri = "sonarr://queue/current" -> "queue"
      [] uri = "sonarr://history/recent" -> "history"
      [] uri = "sonarr://wanted/missing" -> "wanted episodes"
      [] uri = "sonarr://config/quality-profiles" -> "quality profiles"
      [] uri = "sonarr://config/root-folders" -> "root folders"

\* The Client calls each resource's read() awaits.
ResourceCalls(uri) ==
    CASE uri = "sonarr://series/collection" -> <<[op |-> "getSeries", arg |-> ""]>>
      [] uri = "sonarr://calendar/upcoming" -> <<[op |-> "getCalendar", arg |-> ""]>>
      [] uri = "sonarr://system/status" ->
           <<[op |-> "getSystemStatus", arg |-> ""], [op |-> "getDiskSpace", arg |-> ""]>>
      [] uri = "sonarr://queue/current" -> <<[op |-> "getQueue", arg |-> ""]>>
      [] uri = "sonarr://history/recent" -> <<[op |-> "getHistory", arg |-> ""]>>
      [] uri = "sonarr://wanted/missing" -> <<[op |-> "getWantedMissing", arg |-> ""]>>
      [] uri = "sonarr://config/quality-profiles" ->
           <<[op |-> "getQualityProfiles", arg |-> ""]>>
      [] uri = "sonarr://config/root-folders" -> <<[op |-> "getRootFolders", arg |-> ""]>>

\* Mutant: the calendar is served from a remembered empty snapshot, without
\* a fetch.
ResourceBody_ServesRemembered(uri, g) ==
    IF uri = "sonarr://calendar/upcoming" THEN Return(Snapshot(uri, << >>))
    ELSE IF Len(g) = 0 THEN CallAll(ResourceCalls(uri))
    ELSE Return(Snapshot(uri, g[1]))

\* The try block of resource.read: the snapshot carries what was fetched.
ResourceBody(uri, g) ==
    IF Len(g) = 0 THEN CallAll(ResourceCalls(uri))
    ELSE IF uri = "sonarr://queue/current" /\ QueueMapThrows(g[1])
      THEN Throw(ReadOfUndefined)
    ELSE Return(Snapshot(uri, g[1]))

\* Mutant: the failure is absorbed into an isError result.
ResourceCatch_Absorbs(uri, e) ==
    Resolved(ToolError("Failed to read " \o ResourceLabel(uri) \o ": " \o CaughtMessage(e)))

\* The catch block of resource.read.
ResourceCatch(uri, e) ==
    Rejected(NewError("Failed to read " \o ResourceLabel(uri) \o ": " \o CaughtMessage(e)))

\* -------------------------------------------------------- testConnection

\* config.url
ConfiguredUrl == "http://localhost:8989"

\* What a Promise<void> resolves with.
VoidResult == [void |-> TRUE]

\* The try block of testConnection.
TestConnectionBody(g) ==
    IF Len(g) = 0 THEN Call("getSystemStatus", "") ELSE Return(VoidResult)

\* Mutant: the failure is logged and testConnection resolves.
TestConnectionCatch_LogsOnly(e) == Resolved(VoidResult)

\* The catch block of testConnection.
TestConnectionCatch(e) ==
    Rejected(ErrorObject("SonarrApiError",
                         "Failed to connect to Sonarr at " \o ConfiguredUrl \o ": "
                           \o CaughtMessage(e),
                         FALSE, 0))

\* ---------------------------------------------- registries and dispatch

Catch(kind, name, e) ==
    IF kind = "tool" THEN ToolCatch(name, e)
    ELSE IF kind = "resource" THEN ResourceCatch(name, e)
    ELSE TestConnectionCatch(e)

Body(kind, name, args, g) ==
    IF kind = "tool" THEN ToolBody(name, args, g)
    ELSE IF kind = "resource" THEN ResourceBody(name, g)
    ELSE TestConnectionBody(g)

NothingCaught == [any |-> FALSE, call |-> 0]

CaughtError(e, call) == [any |-> TRUE, call |-> call, error |-> e]

\* The catch block received the interceptor's error for the failure `raw`.
CaughtFailure(e, call, raw) == [any |-> TRUE, call |-> call, error |-> e, raw |-> raw]

NotStarted == [state |-> "none"]

Pending == [state |-> "pending"]

\* No invocation is running and no request of an earlier one is in flight.
Quiescent == outcome.state # "pending" /\ waiting = {}

DispatchInit ==
    /\ maxRetries \in {0, DefaultMaxRetries}
    /\ tools = EmptyRegistry
    /\ resources = EmptyRegistry
    /\ invKind = "none"
    /\ invName = ""
    /\ invArgs = ArgsUndefined
    /\ got = << >>
    /\ group = << >>
    /\ waiting = {}
    /\ partial = << >>
    /\ calls = << >>
    /\ httpLog = << >>
    /\ outcome = NotStarted
    /\ caught = NothingCaught

HistoryInit == readLog = << >>

\* ------------------------------------------- environment and configuration

\* An environment variable is << >> when unset, <<value>> when set.
Unset == << >>

\* Values SONARR_VERIFY_SSL is set to.
VerifySslSettings ==
    {Unset, <<"true">>, <<"false">>, <<"TRUE">>, <<"False">>, <<"1">>, <<"0">>, <<"">>}

\* Values SONARR_TIMEOUT is set to, as characters.
TimeoutSettings ==
    {Unset, <<<<"1">>>>, <<<<"3", "0">>>>, <<<<"3", "0", "0">>>>, <<<<"0">>>>,
     <<<<"3", "0", "1">>>>, <<<<"a", "b", "c">>>>}

Environments ==
    {[SONARR_VERIFY_SSL |-> v, SONARR_TIMEOUT |-> t]
        : v \in VerifySslSettings, t \in TimeoutSettings}

\* z.coerce.boolean(): Boolean(value); of a string, true unless it is empty.
CoerceBoolean(value) == value # ""

\* z.coerce.number(): Number(value) of a string of decimal digits (0 for the
\* empty string); NaN for the other strings used here.
CoerceNumber(chars) ==
    IF \A i \in 1..Len(chars) : IsDigit(chars[i])
      THEN [isNaN |-> FALSE, value |-> ParseDigits(chars, 0)]
      ELSE [isNaN |-> TRUE, value |-> 0]

\* SONARR_TIMEOUT's .default(30), in seconds.
DefaultTimeout == 30

ConfigNotLoaded == [state |-> "notLoaded"]

ConfigFailed == [state |-> "failed"]

\* validateEnvironment and the `sonarr` part of `config` built from it.
LoadedConfig(e) ==
    LET timeout == IF e.SONARR_TIMEOUT = Unset
                     THEN [isNaN |-> FALSE, value |-> DefaultTimeout]
                     ELSE CoerceNumber(e.SONARR_TIMEOUT[1])
    IN  IF timeout.isNaN \/ timeout.value < 1 \/ timeout.value > 300
          THEN ConfigFailed
          ELSE [state |-> "loaded",
                timeout |-> timeout.value,
                verifySsl |-> IF e.SONARR_VERIFY_SSL = Unset THEN TRUE
                              ELSE CoerceBoolean(e.SONARR_VERIFY_SSL[1])]

ClientNotBuilt == [built |-> FALSE]

\* The SonarrApiClient constructor's axios.create options: httpsAgent is
\* left undefined (certificates are validated) when verifySsl holds, and is
\* { rejectUnauthorized: false } otherwise.
ClientOptions(sonarrConfig) ==
    [built |-> TRUE,
     timeout |-> sonarrConfig.timeout * 1000,
     hasHttpsAgent |-> ~sonarrConfig.verifySsl,
     rejectUnauthorized |-> sonarrConfig.verifySsl]

\* Nothing set in the environment, configuration loaded, client built.
DefaultEnvironment == [SONARR_VERIFY_SSL |-> Unset, SONARR_TIMEOUT |-> Unset]

ConnectionInit ==
    /\ env = DefaultEnvironment
    /\ appConfig = LoadedConfig(DefaultEnvironment)
    /\ axiosOptions = ClientOptions(LoadedConfig(DefaultEnvironment))

\* Nothing has been sampled, run() is not followed, no invocation overlaps.
NoSample == [kind |-> "none"]

ServerNotFollowed == [pc |-> "notFollowed"]

NoSlots == << >>

OuterInit ==
    /\ sample = NoSample
    /\ server = ServerNotFollowed
    /\ slots = NoSlots
    /\ upstreamSeries = SeriesAlpha
    /\ eventLog = << >>

Init == RetryInit /\ DispatchInit /\ HistoryInit /\ ConnectionInit /\ OuterInit

\* The process before main() calls run(): nothing validated or tested, the
\* transport not connected, the process running.
ServerLoaded ==
    [pc |-> "run", validated |-> FALSE, tested |-> FALSE, connected |-> FALSE,
     exitCode |-> << >>]

\* The process starts with some environment; nothing is loaded yet.
StartupInit ==
    /\ RetryInit
    /\ DispatchInit
    /\ HistoryInit
    /\ env \in Environments
    /\ appConfig = ConfigNotLoaded
    /\ axiosOptions = ClientNotBuilt
    /\ sample = NoSample
    /\ server = ServerLoaded
    /\ slots = NoSlots
    /\ upstreamSeries = SeriesAlpha
    /\ eventLog = << >>

\* Loading environment.ts and config.ts.
LoadConfig ==
    /\ appConfig = ConfigNotLoaded
    /\ appConfig' = LoadedConfig(env)
    /\ UNCHANGED <<env, axiosOptions, retryVars, dispatchVars, historyVars, outerVars>>

\* new SonarrApiClient(config.sonarr)
CreateClient ==
    /\ appConfig.state = "loaded"
    /\ axiosOptions = ClientNotBuilt
    /\ axiosOptions' = ClientOptions(appConfig)
    /\ UNCHANGED <<env, appConfig, retryVars, dispatchVars, historyVars, outerVars>>


\* Run the body of `kind`/`name` from the values g its awaits have resolved
\* with, up to its next await or to its end.  Every Client call made sends
\* exactly one HTTP request.
Proceed(kind, name, args, g, log, http) ==
    LET e == Body(kind, name, args, g)
    IN  /\ got' = g
        /\ partial' = << >>
        /\ IF e.do = "call"
             THEN /\ group' = e.ops
                  /\ waiting' = 1..Len(e.ops)
                  /\ calls' = log \o e.ops
                  /\ httpLog' = http \o [i \in 1..Len(e.ops) |->
                                           HttpRequest(e.ops[i], Len(log) + i)]
                  /\ outcome' = Pending
                  /\ caught' = NothingCaught
             ELSE /\ group' = << >>
                  /\ waiting' = {}
                  /\ calls' = log
                  /\ httpLog' = http
                  /\ IF e.do = "return"
                       THEN /\ outcome' = Resolved(e.result)
                            /\ caught' = NothingCaught
                       ELSE /\ outcome' = Catch(kind, name, e.error)
                            /\ caught' = CaughtError(e.error, 0)

\* The lookup failed or hit something that is not a tool or resource.
FailDispatch(error) ==
    /\ got' = << >>
    /\ group' = << >>
    /\ waiting' = {}
    /\ partial' = << >>
    /\ calls' = << >>
    /\ httpLog' = << >>
    /\ outcome' = Rejected(error)
    /\ caught' = NothingCaught

InitializeTools ==
    /\ Quiescent
    /\ Generation(tools) = 0
    /\ tools' = Register(tools, ToolNames, 1)
    /\ UNCHANGED <<maxRetries, resources, invocationVars, retryVars, historyVars, connectionVars, outerVars>>

\* initializeTools called on a registry that is already populated: every
\* entry is assigned a newly created tool object.
InitializeToolsAgain ==
    /\ Quiescent
    /\ Generation(tools) > 0
    /\ Generation(tools) < MaxInits
    /\ tools' = Register(tools, ToolNames, Generation(tools) + 1)
    /\ UNCHANGED <<maxRetries, resources, invocationVars, retryVars, historyVars, connectionVars, outerVars>>

InitializeResources ==
    /\ Quiescent
    /\ Generation(resources) = 0
    /\ resources' = Register(resources, ResourceUris, 1)
    /\ UNCHANGED <<maxRetries, tools, invocationVars, retryVars, historyVars, connectionVars, outerVars>>

InitializeResourcesAgain ==
    /\ Quiescent
    /\ Generation(resources) > 0
    /\ Generation(resources) < MaxInits
    /\ resources' = Register(resources, ResourceUris, Generation(resources) + 1)
    /\ UNCHANGED <<maxRetries, tools, invocationVars, retryVars, historyVars, connectionVars, outerVars>>

ExecuteTool(name, args) ==
    /\ Quiescent
    /\ invKind' = IF name \in DOMAIN tools THEN "tool" ELSE "unknownTool"
    /\ invName' = name
    /\ invArgs' = args
    /\ CASE Lookup(tools, name) = "own" ->
              Proceed("tool", name, args, << >>, << >>, << >>)
         [] Lookup(tools, name) = "inherited" ->
              FailDispatch(TypeError("tool.execute is not a function"))
         [] OTHER ->
              FailDispatch(NewError("Tool not found: " \o name))
    /\ UNCHANGED <<configVars, retryVars, historyVars, connectionVars, outerVars>>

\* readResource(uri), its effect on the invocation state.
StartRead(uri) ==
    /\ Quiescent
    /\ invKind' = IF uri \in DOMAIN resources THEN "resource" ELSE "unknownResource"
    /\ invName' = uri
    /\ invArgs' = ArgsUndefined
    /\ CASE Lookup(resources, uri) = "own" ->
              Proceed("resource", uri, ArgsUndefined, << >>, << >>, << >>)
         [] Lookup(resources, uri) = "inherited" ->
              FailDispatch(TypeError("resource.read is not a function"))
         [] OTHER ->
              FailDispatch(NewError("Resource not found: " \o uri))
    /\ UNCHANGED <<configVars, retryVars>>

ReadResource(uri) ==
    /\ StartRead(uri)
    /\ UNCHANGED <<historyVars, connectionVars, outerVars>>

\* What is remembered of a read once the next one starts: its URI, the
\* Client fetches it made, and the snapshot it resolved with (<< >> when it
\* rejected).
PastRead ==
    [uri |-> invName,
     fetched |-> [k \in 1..Len(calls) |-> calls[k].op],
     snapshot |-> IF outcome.state = "resolved" THEN <<outcome.result>> ELSE << >>]

\* A further readResource(uri) in a run of at most MaxReads reads.
ReadResourceAgain(uri) ==
    /\ Len(readLog) + 1 < MaxReads \/ invKind # "resource"
    /\ StartRead(uri)
    /\ readLog' = IF invKind = "resource" THEN Append(readLog, PastRead) ELSE readLog
    /\ UNCHANGED <<connectionVars, outerVars>>

\* The request of the i-th awaited call comes back with `data`.
ClientCallSucceeds(i, data) ==
    /\ outcome.state = "pending"
    /\ i \in waiting
    /\ LET arrived == [j \in (DOMAIN partial) \cup {i} |->
                          IF j = i THEN data ELSE partial[j]]
       IN  IF waiting = {i}
             THEN Proceed(invKind, invName, invArgs,
                          Append(got, IF Len(group) = 1 THEN data
                                      ELSE [j \in 1..Len(group) |-> arrived[j]]),
                          calls, httpLog)
             ELSE /\ partial' = arrived
                  /\ waiting' = waiting \ {i}
                  /\ UNCHANGED <<got, group, calls, httpLog, outcome, caught>>
    /\ UNCHANGED <<invKind, invName, invArgs, configVars, retryVars, historyVars, connectionVars, outerVars>>

\* The request of the i-th awaited call fails: the interceptor turns the
\* failure into a SonarrApiError, which the endpoint method lets through to
\* the body's catch block.
ClientCallFails(i, error) ==
    /\ outcome.state = "pending"
    /\ i \in waiting
    /\ LET e == InterceptResponseError(error)
       IN  /\ outcome' = Catch(invKind, invName, e)
           /\ caught' = CaughtFailure(e, Len(calls) - Len(group) + i, error)
    /\ waiting' = waiting \ {i}
    /\ UNCHANGED <<got, group, partial, calls, httpLog>>
    /\ UNCHANGED <<invKind, invName, invArgs, configVars, retryVars, historyVars, connectionVars, outerVars>>

\* A request of a Promise.all that has already rejected comes back.
LateResponse(i) ==
    /\ outcome.state # "pending"
    /\ i \in waiting
    /\ waiting' = waiting \ {i}
    /\ UNCHANGED <<got, group, partial, calls, httpLog, outcome, caught>>
    /\ UNCHANGED <<invKind, invName, invArgs, configVars, retryVars, historyVars, connectionVars, outerVars>>

DispatchNext ==
    \/ InitializeTools
    \/ InitializeResources
    \/ \E name \in RequestedToolNames : \E args \in ArgsFor(name) : ExecuteTool(name, args)
    \/ \E uri \in RequestedResourceUris : ReadResource(uri)
    \/ \E i \in waiting : \E data \in SuccessData(group[i]) : ClientCallSucceeds(i, data)
    \/ \E i \in waiting : \E error \in AxiosErrors : ClientCallFails(i, error)
    \/ \E i \in waiting : LateResponse(i)

Spec == Init /\ [][DispatchNext]_vars

\* client.testConnection()
TestConnection ==
    /\ Quiescent
    /\ invKind' = "connection"
    /\ invName' = "testConnection"
    /\ invArgs' = ArgsUndefined
    /\ Proceed("connection", "testConnection", ArgsUndefined, << >>, << >>, << >>)
    /\ UNCHANGED <<configVars, retryVars, historyVars, connectionVars, outerVars>>

\* ------------------------------------------------- SonarrMCPServer.run()

startupFrame ==
    <<retryVars, dispatchVars, historyVars, connectionVars, figureVars, sessionVars>>

\* Mutant: the failure is logged and initialisation carries on.
InitializeCatch_LogsOnly(s) == [s EXCEPT !.pc = "register"]

\* initialize() rethrows what it caught and run() answers with
\* process.exit(1).
InitializeCatch(s) == [s EXCEPT !.pc = "exited", !.exitCode = <<1>>]

\* run() -> initialize(): validateEnvironment() parses process.env again.
ValidateEnvironment ==
    /\ server.pc = "run"
    /\ axiosOptions.built
    /\ server' = IF LoadedConfig(env).state = "loaded"
                   THEN [server EXCEPT !.pc = "test", !.validated = TRUE]
                   ELSE InitializeCatch(server)
    /\ UNCHANGED startupFrame

\* await this.sonarrClient.testConnection()
BeginTestConnection ==
    /\ server.pc = "test"
    /\ invKind = "none"
    /\ TestConnection

\* testConnection resolved.
ConnectionTested ==
    /\ server.pc = "test"
    /\ invKind = "connection"
    /\ outcome.state = "resolved"
    /\ server' = [server EXCEPT !.pc = "register", !.tested = TRUE]
    /\ UNCHANGED startupFrame

\* testConnection rejected.
ConnectionFailed ==
    /\ server.pc = "test"
    /\ invKind = "connection"
    /\ outcome.state = "rejected"
    /\ server' = InitializeCatch(server)
    /\ UNCHANGED startupFrame

\* await initializeTools(this.sonarrClient)
RegisterTools ==
    /\ server.pc = "register"
    /\ InitializeTools

\* await initializeResources(this.sonarrClient)
RegisterResources ==
    /\ server.pc = "register"
    /\ Generation(tools) > 0
    /\ InitializeResources

\* start(): await this.server.connect(transport)
ConnectTransport ==
    /\ server.pc = "register"
    /\ Generation(tools) > 0
    /\ Generation(resources) > 0
    /\ server' = [server EXCEPT !.pc = "serving", !.connected = TRUE]
    /\ UNCHANGED startupFrame

\* Requests arrive over the connected transport.
ServeTool(name) ==
    /\ server.connected
    /\ server.pc = "serving"
    /\ ExecuteTool(name, ArgsUndefined)

ServeResource(uri) ==
    /\ server.connected
    /\ server.pc = "serving"
    /\ ReadResource(uri)

StartupNext ==
    \/ LoadConfig
    \/ CreateClient
    \/ ValidateEnvironment
    \/ BeginTestConnection
    \/ ConnectionTested
    \/ ConnectionFailed
    \/ RegisterTools
    \/ RegisterResources
    \/ ConnectTransport
    \/ \E name \in {"get_calendar", "unknown_tool"} : ServeTool(name)
    \/ ServeResource("sonarr://calendar/upcoming")
    \/ /\ server.pc # "exited"
       /\ \E i \in waiting : \E data \in SuccessData(group[i]) : ClientCallSucceeds(i, data)
    \/ /\ server.pc # "exited"
       /\ \E i \in waiting : ClientCallFails(i, NoResponseFailure)

SpecStartup == StartupInit /\ [][StartupNext]_vars

\* The Client under every shape of transport failure, driven by
\* testConnection and by the resources' fetches.
ClientNext ==
    \/ InitializeResources
    \/ TestConnection
    \/ \E uri \in ResourceUris : ReadResource(uri)
    \/ \E i \in waiting : \E data \in SuccessData(group[i]) : ClientCallSucceeds(i, data)
    \/ \E i \in waiting : \E error \in TransportFailures : ClientCallFails(i, error)
    \/ \E i \in waiting : LateResponse(i)

SpecClient == Init /\ [][ClientNext]_vars

\* Sequences of resource reads.
ReadsNext ==
    \/ InitializeResources
    \/ \E uri \in RequestedResourceUris : ReadResourceAgain(uri)
    \/ \E i \in waiting : \E data \in SuccessData(group[i]) : ClientCallSucceeds(i, data)
    \/ \E i \in waiting : \E error \in AxiosErrors : ClientCallFails(i, error)
    \/ \E i \in waiting : LateResponse(i)

SpecReads == Init /\ [][ReadsNext]_vars

\* The registries under repeated initialisation, with tools executed and
\* resources read in between.
RegistryNext ==
    \/ InitializeTools
    \/ InitializeToolsAgain
    \/ InitializeResources
    \/ InitializeResourcesAgain
    \/ \E name \in RequestedToolNames : ExecuteTool(name, ArgsUndefined)
    \/ \E uri \in RequestedResourceUris : ReadResource(uri)
    \/ \E i \in waiting : \E data \in SuccessData(group[i]) : ClientCallSucceeds(i, data)
    \/ \E i \in waiting : \E error \in AxiosErrors : ClientCallFails(i, error)
    \/ \E i \in waiting : LateResponse(i)

SpecRegistry == Init /\ [][RegistryNext]_vars

\* ----------------------------------------------------- request handlers

\* new McpError(code, message)
McpError(code, message) == [kind |-> "McpError", code |-> code, message |-> message]

\* The catch block of both handlers: an McpError passes, anything else is
\* wrapped into an InternalError.
HandlerCatch(prefix, e) ==
    [response |-> "error",
     error |-> IF e.kind = "McpError" THEN e
               ELSE McpError("InternalError", prefix \o CaughtMessage(e))]

\* The CallToolRequestSchema handler, given how executeTool settled.
CallToolHandler(settled) ==
    IF settled.state = "resolved"
      THEN [response |-> "result",
            content |-> settled.result.content,
            isError |-> settled.result.isError]
      ELSE HandlerCatch("Tool execution failed: ", settled.error)

\* Mutant: a failed read is answered with an isError result.
ReadResourceHandler_AnswersError(settled) ==
    IF settled.state = "resolved"
      THEN [response |-> "result", contents |-> settled.result.contents]
      ELSE [response |-> "result",
            content |-> ToolError(settled.error.message).content,
            isError |-> "true"]

\* The ReadResourceRequestSchema handler, given how readResource settled.
ReadResourceHandler(settled) ==
    IF settled.state = "resolved"
      THEN [response |-> "result", contents |-> settled.result.contents]
      ELSE HandlerCatch("Resource read failed: ", settled.error)

\* ------------------------------------------------------ derived figures
\* The figures manage_queue, system_status and the queue and system status
\* resources compute from the records they fetched.  Numbers are exact:
\* where the code divides, the quotient is kept as a fraction in lowest
\* terms until Math.round is applied.

RECURSIVE GCD(_, _)
GCD(a, b) == IF b = 0 THEN a ELSE GCD(b, a % b)

\* Math.round(n / d) for d > 0: the nearest integer, halves going up.
MathRound(n, d) == (2 * n + d) \div (2 * d)

\* Math.round(n / d * 100), the fraction reduced before it is scaled.
RoundPercent(n, d) ==
    LET c == GCD(d, IF n < 0 THEN -n ELSE n)
    IN  MathRound(100 * (n \div c), d \div c)

\* A number of hundredths as JavaScript prints the number: 46566 is
\* "465.66", 150 is "1.5", 200 is "2".
NumberToString(hundredths) ==
    ToString(hundredths \div 100)
      \o (IF hundredths % 100 = 0 THEN ""
          ELSE "." \o ToString((hundredths % 100) \div 10)
                 \o (IF hundredths % 10 = 0 THEN "" ELSE ToString(hundredths % 10)))

\* A queue record: its sizes in bytes.
QueueRecord(id, size, sizeleft) == [id |-> id, size |-> size, sizeleft |-> sizeleft]

\* Mutant: the percentage is cut off instead of rounded.
ToolQueueProgress_Truncates(item) ==
    IF item.size > 0
      THEN LET c == GCD(item.size, item.size - item.sizeleft)
           IN  ToString((100 * ((item.size - item.sizeleft) \div c)) \div (item.size \div c))
                 \o "%"
      ELSE "Unknown"

\* manage_queue list:
\* item.size > 0 ? Math.round((1 - item.sizeleft / item.size) * 100) + '%' : 'Unknown'
ToolQueueProgress(item) ==
    IF item.size > 0
      THEN ToString(RoundPercent(item.size - item.sizeleft, item.size)) \o "%"
      ELSE "Unknown"

\* The queue resource:
\* item.size > 0 ? Math.round((1 - item.sizeleft / item.size) * 100) : 0
ResourceQueueProgress(item) ==
    IF item.size > 0 THEN RoundPercent(item.size - item.sizeleft, item.size) ELSE 0

ToolQueueItem(item) == [id |-> item.id, progress |-> ToolQueueProgress(item)]

ResourceQueueItem(item) ==
    [id |-> item.id, size |-> item.size, sizeLeft |-> item.sizeleft,
     progress |-> ResourceQueueProgress(item)]

\* A disk as getDiskSpace lists it.  Space is counted in KiB (file systems
\* hand it out in blocks), so that a terabyte stays within the integers.
DiskRecord(freeKiB, totalKiB) == [freeSpace |-> freeKiB, totalSpace |-> totalKiB]

KiBPerGiB == 1024 * 1024

\* Mutant: the size in GB is cut off after two decimals instead of rounded.
RoundedGB_Truncates(kib) ==
    100 * (kib \div KiBPerGiB) + (100 * (kib % KiBPerGiB)) \div KiBPerGiB

\* Math.round(bytes / (1024 * 1024 * 1024) * 100) / 100, in hundredths of a
\* GB: the whole GB counted first, the rest rounded.
RoundedGB(kib) ==
    100 * (kib \div KiBPerGiB) + MathRound(100 * (kib % KiBPerGiB), KiBPerGiB)

\* system_status: the figures carry their units.
ToolDiskEntry(disk) ==
    [freeSpace |-> NumberToString(RoundedGB(disk.freeSpace)) \o " GB",
     totalSpace |-> NumberToString(RoundedGB(disk.totalSpace)) \o " GB",
     percentFree |-> ToString(RoundPercent(disk.freeSpace, disk.totalSpace)) \o "%"]

\* The system status resource: the figures are numbers (GB in hundredths).
ResourceDiskEntry(disk) ==
    [freeSpaceBytes |-> disk.freeSpace,
     totalSpaceBytes |-> disk.totalSpace,
     freeSpaceGB |-> RoundedGB(disk.freeSpace),
     totalSpaceGB |-> RoundedGB(disk.totalSpace),
     percentFree |-> RoundPercent(disk.freeSpace, disk.totalSpace)]

\* The queue records sampled: every size up to MaxSize with every size left,
\* and the download of 1,000,000,000 bytes with 200,000,000 left.
QueueSamples ==
    {QueueRecord(7, size, left) : size \in 0..MaxSize, left \in 0..MaxSize}
      \cup {QueueRecord(7, 1000000000, 200000000)}

\* The disks sampled: every total up to MaxChunks sixty-fourths of a GiB with
\* every amount free, and the disk of 1,000,000,000,000 bytes with
\* 500,000,000,000 free.
DiskSamples ==
    {DiskRecord(free * 16384, total * 16384)
        : total \in 1..MaxChunks, free \in 0..MaxChunks}
      \cup {DiskRecord(488281250, 976562500)}

Sampled(kind, record) ==
    [kind |-> kind, record |-> record, tool |-> << >>, resource |-> << >>]

FiguresInit ==
    /\ RetryInit
    /\ DispatchInit
    /\ HistoryInit
    /\ ConnectionInit
    /\ sample \in {Sampled("queue", r) : r \in {q \in QueueSamples : q.sizeleft <= q.size}}
                  \cup {Sampled("disk", d) : d \in {k \in DiskSamples : k.freeSpace <= k.totalSpace}}
    /\ server = ServerNotFollowed
    /\ slots = NoSlots
    /\ upstreamSeries = SeriesAlpha
    /\ eventLog = << >>

figuresFrame ==
    <<retryVars, dispatchVars, historyVars, connectionVars, serverVars, sessionVars>>

\* manage_queue list maps the record.
ListQueueRecord ==
    /\ sample.kind = "queue"
    /\ sample.tool = << >>
    /\ sample' = [sample EXCEPT !.tool = <<ToolQueueItem(sample.record)>>]
    /\ UNCHANGED figuresFrame

\* The queue resource maps the record.
ReadQueueRecord ==
    /\ sample.kind = "queue"
    /\ sample.resource = << >>
    /\ sample' = [sample EXCEPT !.resource = <<ResourceQueueItem(sample.record)>>]
    /\ UNCHANGED figuresFrame

\* system_status maps the disk.
StatusOfDisk ==
    /\ sample.kind = "disk"
    /\ sample.tool = << >>
    /\ sample' = [sample EXCEPT !.tool = <<ToolDiskEntry(sample.record)>>]
    /\ UNCHANGED figuresFrame

\* The system status resource maps the disk.
ReadDisk ==
    /\ sample.kind = "disk"
    /\ sample.resource = << >>
    /\ sample' = [sample EXCEPT !.resource = <<ResourceDiskEntry(sample.record)>>]
    /\ UNCHANGED figuresFrame

FiguresNext ==
    \/ ListQueueRecord
    \/ ReadQueueRecord
    \/ StatusOfDisk
    \/ ReadDisk

SpecFigures == FiguresInit /\ [][FiguresNext]_vars

\* --------------------------------------------- invocations that overlap
\* The request handlers are async functions: a second request is accepted
\* while an earlier one is awaiting the Client.  Every handler uses the one
\* Client and the one Sonarr behind it.

Handlers == {1, 2}

IdleSlot ==
    [kind |-> "none", name |-> "", args |-> ArgsUndefined, got |-> << >>,
     call |-> << >>, outcome |-> NotStarted]

\* The requests that arrive while another may be in flight.
SessionRequests ==
    {[kind |-> "tool", name |-> "update_series", args |-> a]
        : a \in {u \in UpdateSeriesArgs : Has(u, "seriesId") /\ ~(Has(u, "monitored") /\ u.monitored)}}
      \cup {[kind |-> "tool", name |-> "search_series",
              args |-> Args({"query"}, [query |-> "Breaking Bad"])],
             [kind |-> "resource", name |-> "sonarr://series/collection",
              args |-> ArgsUndefined]}

\* Mutant: an endpoint method leaves its own timeout on the shared instance.
ClientAfterCall_Reconfigures(options, call) ==
    IF call.op = "updateSeries" THEN [options EXCEPT !.timeout = 0] ELSE options

\* The axios options after an endpoint method ran: the methods only issue
\* requests through this.client and assign nothing.
ClientAfterCall(options, call) == options

\* Mutant: Sonarr keeps a record that was already modified.
PutSeries_FirstWins(held, sent) == IF held = SeriesAlpha THEN sent ELSE held

\* PUT /series/{id} with the whole record as the body: Sonarr holds what was
\* sent.
PutSeries(held, sent) == sent

\* What Sonarr answers a call with, given the series record it holds.
UpstreamAnswers(call, held) ==
    CASE call.op = "getSeriesById" -> {held}
      [] call.op = "updateSeries" -> {PutSeries(held, call.arg)}
      [] OTHER -> SuccessData(call)

\* The slot once its body has run on from the values g.
SlotAfter(slot, g) ==
    LET e == Body(slot.kind, slot.name, slot.args, g)
    IN  IF e.do = "call"
          THEN [slot EXCEPT !.got = g, !.call = <<e.ops[1]>>, !.outcome = Pending]
          ELSE [slot EXCEPT !.got = g, !.call = << >>,
                            !.outcome = IF e.do = "return" THEN Resolved(e.result)
                                        ELSE Catch(slot.kind, slot.name, e.error)]

Answered(h, call, data) ==
    [handler |-> h, op |-> call.op, arg |-> call.arg, ok |-> TRUE, data |-> data,
     error |-> NoResponseFailure]

Refused(h, call, error) ==
    [handler |-> h, op |-> call.op, arg |-> call.arg, ok |-> FALSE, data |-> "none",
     error |-> error]

\* The server is serving: both registries are populated, no request has
\* arrived yet.
SessionInit ==
    /\ RetryInit
    /\ HistoryInit
    /\ ConnectionInit
    /\ maxRetries = DefaultMaxRetries
    /\ tools = Register(EmptyRegistry, ToolNames, 1)
    /\ resources = Register(EmptyRegistry, ResourceUris, 1)
    /\ invKind = "none"
    /\ invName = ""
    /\ invArgs = ArgsUndefined
    /\ got = << >>
    /\ group = << >>
    /\ waiting = {}
    /\ partial = << >>
    /\ calls = << >>
    /\ httpLog = << >>
    /\ outcome = NotStarted
    /\ caught = NothingCaught
    /\ sample = NoSample
    /\ server = ServerNotFollowed
    /\ slots = [h \in Handlers |-> IdleSlot]
    /\ upstreamSeries = SeriesAlpha
    /\ eventLog = << >>

sessionFrame ==
    <<retryVars, dispatchVars, historyVars, env, appConfig, figureVars, serverVars>>

\* A handler accepts a request and runs its tool or resource up to the
\* first await.
Accept(h, request) ==
    /\ slots[h].kind = "none"
    /\ Lookup(IF request.kind = "tool" THEN tools ELSE resources, request.name) = "own"
    /\ slots' = [slots EXCEPT ![h] =
                    SlotAfter([IdleSlot EXCEPT !.kind = request.kind,
                                               !.name = request.name,
                                               !.args = request.args], << >>)]
    /\ UNCHANGED <<upstreamSeries, eventLog, axiosOptions, sessionFrame>>

\* Sonarr answers the request handler h is awaiting.
Answer(h, data) ==
    /\ slots[h].call # << >>
    /\ LET call == slots[h].call[1]
       IN  /\ data \in UpstreamAnswers(call, upstreamSeries)
           /\ upstreamSeries' = IF call.op = "updateSeries"
                                  THEN PutSeries(upstreamSeries, call.arg)
                                  ELSE upstreamSeries
           /\ eventLog' = Append(eventLog, Answered(h, call, data))
           /\ axiosOptions' = ClientAfterCall(axiosOptions, call)
           /\ slots' = [slots EXCEPT ![h] = SlotAfter(slots[h], Append(slots[h].got, data))]
    /\ UNCHANGED sessionFrame

\* The request handler h is awaiting fails.
Refuse(h, error) ==
    /\ slots[h].call # << >>
    /\ LET call == slots[h].call[1]
       IN  /\ eventLog' = Append(eventLog, Refused(h, call, error))
           /\ axiosOptions' = ClientAfterCall(axiosOptions, call)
           /\ slots' = [slots EXCEPT ![h] =
                           [slots[h] EXCEPT
                              !.call = << >>,
                              !.outcome = Catch(slots[h].kind, slots[h].name,
                                                InterceptResponseError(error))]]
    /\ UNCHANGED <<upstreamSeries, sessionFrame>>

SessionNext ==
    \/ \E h \in Handlers : \E request \in SessionRequests : Accept(h, request)
    \/ \E h \in Handlers :
          /\ slots[h].call # << >>
          /\ \E data \in UpstreamAnswers(slots[h].call[1], upstreamSeries) : Answer(h, data)
    \/ \E h \in Handlers : Refuse(h, NoResponseFailure)

SpecSessions == SessionInit /\ [][SessionNext]_vars

SpecRetry == Init /\ [][RetryNext]_vars

\* ------------------------------------------------- claims: retry executor

\* The claims' notion of a retryable failure: no status code, or one >= 500.
ClaimRetryable(e) == ~e.hasStatusCode \/ e.statusCode >= 500

\* The claims' notion of a client error: a status code in [400,500).
ClaimClientError(e) == e.hasStatusCode /\ e.statusCode >= 400 /\ e.statusCode < 500

Last(s) == s[Len(s)]

AllFailedRetryable(s) ==
    \A i \in 1..Len(s) : ~s[i].ok /\ ClaimRetryable(s[i].thrown)

\* C1: if the first k <= N attempts each fail with a status >= 500 or with no
\* status code, the executor has not given up (attempt k+1 is made), and when
\* attempt k+1 succeeds executeWithRetry resolves with that attempt's value
\* after exactly k+1 invocations of the operation.
C1_RetryThenSucceed ==
    /\ (rPc # "idle" /\ AllFailedRetryable(outcomes) /\ Len(outcomes) <= retries)
           => rPc \in {"attempt", "backoff"}
    /\ (outcomes # << >> /\ Last(outcomes).ok)
           => /\ rPc = "resolved"
              /\ result = Last(outcomes).value
              /\ \A i \in 1..(Len(outcomes) - 1) : ~outcomes[i].ok

\* C1 witness: two retryable failures (one with status 500, one without a
\* status code), then a success on the third invocation.
C1_Witness ==
    /\ rPc = "resolved"
    /\ Len(outcomes) = 3
    /\ result = "success"
    /\ outcomes[1].thrown.hasStatusCode /\ outcomes[1].thrown.statusCode = 500
    /\ ~outcomes[2].thrown.hasStatusCode

\* C2: a failed attempt is followed by another attempt only if budget
\* remained and the failure carried no status code or one >= 500; a failure
\* with a status code in [400,500) ends the execution at once, rejecting with
\* that very error.
C2_NoRetryOnClientError ==
    /\ \A i \in 1..Len(outcomes) :
          (i < Len(outcomes) \/ rPc \in {"attempt", "backoff"})
             => /\ ~outcomes[i].ok
                /\ i <= retries
                /\ ClaimRetryable(outcomes[i].thrown)
    /\ \A i \in 1..Len(outcomes) :
          (~outcomes[i].ok /\ ClaimClientError(outcomes[i].thrown))
             => /\ i = Len(outcomes)
                /\ rPc = "rejected"
                /\ lastError = outcomes[i].thrown

\* C2 witness: a 404 on the first attempt with budget left ends the execution.
C2_Witness ==
    /\ rPc = "rejected"
    /\ Len(outcomes) = 1
    /\ retries >= 2
    /\ outcomes[1].thrown.hasStatusCode /\ outcomes[1].thrown.statusCode = 404
    /\ lastError = outcomes[1].thrown

\* C3 (as claimed): never more than N+1 invocations, and after N+1 retryable
\* failures the rejection is exactly the value the last attempt threw, for
\* every kind of thrown value.
C3_Original ==
    /\ Len(outcomes) <= retries + 1
    /\ (rPc = "rejected" /\ Len(outcomes) = retries + 1 /\ AllFailedRetryable(outcomes))
           => lastError = Last(outcomes).thrown

\* C3 (amended): never more than N+1 invocations; after N+1 retryable
\* failures the rejection is exactly the value the last attempt threw when
\* that value is an Error instance, and a fresh Error('Unknown error') when
\* the last attempt threw something that is not an Error.
C3_LastErrorPropagates ==
    /\ Len(outcomes) <= retries + 1
    /\ (rPc = "rejected" /\ Len(outcomes) = retries + 1 /\ AllFailedRetryable(outcomes))
           => IF Last(outcomes).thrown.kind = "nonError"
                THEN lastError = UnknownError
                ELSE lastError = Last(outcomes).thrown

\* C3 witness: a budget of 2 exhausted by three retryable failures, the
\* last one a SonarrApiError with status 500.
C3_Witness ==
    /\ rPc = "rejected"
    /\ retries = 2
    /\ Len(outcomes) = 3
    /\ AllFailedRetryable(outcomes)
    /\ Last(outcomes).thrown.kind = "SonarrApiError"
    /\ lastError = Last(outcomes).thrown

\* The delays the claim lists: 1000, 2000, 4000, 8000, then 10000.
C4_Expected(k) ==
    CASE k = 1 -> 1000 [] k = 2 -> 2000 [] k = 3 -> 4000 [] k = 4 -> 8000
      [] OTHER -> 10000

\* C4: the k-th delay is waited after the k-th failed attempt and is
\* min(1000 * 2^(k-1), 10000); the delays never decrease and never exceed
\* 10000; no delay follows a success, a non-retryable failure or the final
\* attempt.
C4_BackoffSchedule ==
    /\ \A k \in 1..Len(delays) :
          /\ delays[k] = C4_Expected(k)
          /\ delays[k] <= 10000
          /\ k > 1 => delays[k - 1] <= delays[k]
          /\ ~outcomes[k].ok
          /\ ClaimRetryable(outcomes[k].thrown)
          /\ k <= retries
    /\ rPc \in {"attempt", "backoff"} => Len(delays) = Len(outcomes)
    /\ rPc \in {"resolved", "rejected"} => Len(delays) = Len(outcomes) - 1

\* C4 witness: five retries were scheduled and the fifth delay hit the cap.
C4_Witness ==
    /\ rPc = "rejected"
    /\ Len(delays) >= 5
    /\ delays[4] = 8000
    /\ delays[5] = 10000

\* ------------------------------------- claims: client, tools and resources

\* The HTTP requests sent for the Client call number c of the invocation.
RequestsOfCall(c) == {k \in 1..Len(httpLog) : httpLog[k].call = c}

\* The catch block received the failure of a Client call whose request got
\* no response.
NoResponseReachedBody ==
    /\ invKind \in {"tool", "resource"}
    /\ caught.any
    /\ caught.call > 0
    /\ caught.error.kind = "SonarrApiError"
    /\ ~caught.error.hasStatusCode

\* C5: a request of an endpoint method that fails with no response is retried
\* up to maxRetries more times before the failure reaches the tool or
\* resource: when the failure has reached the body, maxRetries + 1 requests
\* were sent for that call.
C5_Original ==
    NoResponseReachedBody =>
        Cardinality(RequestsOfCall(caught.call)) = maxRetries + 1

\* The only text entry of a result, as the claim words it.
FailedToText(tool, e) == "Failed to " \o FailedVerb(tool) \o ": " \o e.message

\* C6: execute(args) of a registered tool never rejects, whatever the args
\* and whichever Client call fails; when a Client call or the body throws,
\* the result has isError = true and the single text entry
\* 'Failed to <verb>: <message of the thrown error>'.
C6_ToolsNeverReject ==
    invKind = "tool" =>
        /\ outcome.state # "rejected"
        /\ caught.any =>
             /\ outcome.state = "resolved"
             /\ outcome.result.isError = "true"
             /\ outcome.result.content =
                  <<[type |-> "text", text |-> FailedToText(invName, caught.error)]>>

\* A tool whose second or later Client call failed has resolved.
C6_Witness ==
    /\ invKind = "tool"
    /\ caught.any
    /\ caught.call > 1
    /\ outcome.state = "resolved"

\* C7: for every name that is not a registered tool executeTool throws
\* 'Tool not found: <name>', for every URI that is not a registered resource
\* readResource throws 'Resource not found: <uri>'; nothing is invoked and no
\* result is returned.
C7_Original ==
    /\ invKind = "unknownTool" =>
         /\ outcome = Rejected(NewError("Tool not found: " \o invName))
         /\ calls = << >>
    /\ invKind = "unknownResource" =>
         /\ outcome = Rejected(NewError("Resource not found: " \o invName))
         /\ calls = << >>

\* C8: when a Client fetch made by read() fails, read() rejects with
\* 'Failed to read <label>: <message of the underlying error>'; a read that
\* resolves has caught nothing, and what it resolves with is the snapshot of
\* everything it fetched, with no isError flag.
C8_ResourceReadRejects ==
    invKind = "resource" =>
        /\ caught.any =>
             outcome = Rejected(NewError("Failed to read " \o ResourceLabel(invName)
                                           \o ": " \o caught.error.message))
        /\ outcome.state = "resolved" =>
             /\ ~caught.any
             /\ outcome.result = Snapshot(invName, got[1])
             /\ DOMAIN outcome.result = {"contents"}

\* The system status read has rejected because its second fetch failed after
\* its first one had resolved.
C8_Witness ==
    /\ invKind = "resource"
    /\ invName = "sonarr://system/status"
    /\ caught.any
    /\ caught.call = 2
    /\ DOMAIN partial = {1}
    /\ outcome.state = "rejected"

\* add_series is running or has run, and its search came back empty.
AddSeriesSearchEmpty ==
    /\ invKind = "tool"
    /\ invName = "add_series"
    /\ Len(got) >= 1
    /\ got[1] = << >>

\* C9: add_series whose search returned zero results returns isError = true
\* with a message containing 'No series found matching', and makes no Client
\* call after the search.
C9_EmptySearchStops ==
    AddSeriesSearchEmpty =>
        /\ outcome.state = "resolved"
        /\ outcome.result.isError = "true"
        /\ outcome.result.content[1].text =
             "No series found matching" \o " \"" \o invArgs.query \o "\""
        /\ Len(calls) = 1
        /\ \A k \in 1..Len(calls) : calls[k].op # "addSeries"

C9_Witness ==
    /\ AddSeriesSearchEmpty
    /\ outcome.state = "resolved"
    /\ calls = <<[op |-> "searchSeries", arg |-> invArgs.query]>>

\* A string that denotes an integer id: an optional sign, then digits only.
IsIntegerString(s) ==
    LET u == IF s # << >> /\ Head(s) \in {"-", "+"} THEN Tail(s) ELSE s
    IN  u # << >> /\ \A i \in 1..Len(u) : IsDigit(u[i])

\* add_series has fetched the profiles, and its qualityProfile string is
\* neither an integer id nor the name of a fetched profile in any casing.
UnknownProfileName ==
    /\ invKind = "tool"
    /\ invName = "add_series"
    /\ Has(invArgs, "qualityProfile")
    /\ Len(got) >= 2
    /\ got[1] # << >>
    /\ ~IsIntegerString(invArgs.qualityProfile)
    /\ \A i \in 1..Len(got[2]) :
         ToLowerCase(got[2][i].name) # ToLowerCase(invArgs.qualityProfile)

\* C10: add_series with a qualityProfile string that is not an integer id and
\* not the name of a fetched profile returns isError = true with a message
\* listing the available profile names and makes no add-series call.
C10_Original ==
    UnknownProfileName =>
        /\ outcome.state = "resolved"
        /\ outcome.result.isError = "true"
        /\ outcome.result.content[1].text =
             "Quality profile \"" \o JoinChars(invArgs.qualityProfile)
               \o "\" not found. Available profiles: "
               \o JoinComma(ProfileNames(got[2]))
        /\ \A k \in 1..Len(calls) : calls[k].op # "addSeries"

\* ------------------------------------------------- claims: tool behaviour

\* The Client calls of the invocation that go to `op`.
CallsTo(op) == {k \in 1..Len(calls) : calls[k].op = op}

\* add_series has returned its success result.
AddSeriesSucceeded ==
    /\ invKind = "tool"
    /\ invName = "add_series"
    /\ outcome.state = "resolved"
    /\ outcome.result.isError # "true"

\* A qualityProfile string that is plainly an id (digits only) or plainly a
\* name (no digit in it).
PlainProfileString(s) ==
    IsIntegerString(s) \/ \A i \in 1..Len(s) : ~IsDigit(s[i])

\* The profile id the string stands for: the integer itself, else the id of
\* the fetched profile with that name in any casing.
ResolvedProfileId(s, profiles) ==
    IF IsIntegerString(s) THEN ParseDigits(s, 0)
    ELSE (CHOOSE p \in {profiles[i] : i \in 1..Len(profiles)} :
            ToLowerCase(p.name) = ToLowerCase(s)).id

\* The fixed language profile id used when upstream lists none.
FallbackLanguageProfileId == 1

SearchMissingRunning ==
    /\ invKind = "tool"
    /\ invName = "search_missing_episodes"
    /\ invArgs.defined

\* C12: search_missing_episodes runs exactly one of three modes, chosen only
\* by which arguments are present, whatever their integer values: no seriesId
\* -> only the global search command; seriesId alone -> only the per-series
\* command for that id; seriesId and seasonNumber -> only the season mode
\* (fetch the series' episodes, then at most one per-episode search command).
C12_Original ==
    SearchMissingRunning =>
        IF "seriesId" \notin invArgs.has
          THEN /\ Len(calls) = 1
               /\ calls[1].op = "searchAllMissing"
        ELSE IF "seasonNumber" \notin invArgs.has
          THEN /\ Len(calls) = 1
               /\ calls[1].op = "searchSeriesMissing"
               /\ calls[1].arg = invArgs.seriesId
        ELSE /\ Len(calls) \in {1, 2}
             /\ calls[1].op = "getEpisodesBySeries"
             /\ calls[1].arg = invArgs.seriesId
             /\ Len(calls) = 2 => calls[2].op = "searchEpisodes"

\* The ids of the episodes of `episodes` that are in `season`, have no file
\* and are monitored, in the order fetched.
RECURSIVE MissingIds(_, _)
MissingIds(episodes, season) ==
    IF episodes = << >> THEN << >>
    ELSE (IF /\ Head(episodes).seasonNumber = season
             /\ Head(episodes).hasFile = FALSE
             /\ Head(episodes).monitored = TRUE
            THEN <<Head(episodes).id>> ELSE << >>)
           \o MissingIds(Tail(episodes), season)

\* The season mode has fetched the series' episodes.
SeasonModeFetched ==
    /\ SearchMissingRunning
    /\ Len(calls) >= 1
    /\ calls[1].op = "getEpisodesBySeries"
    /\ Len(got) >= 1

\* C13: in the season mode the ids handed to the per-episode search command
\* are exactly the ids of the fetched episodes of the requested season that
\* have no file and are monitored; when there is none, no search command is
\* issued and the result is the success 'No missing episodes found'.
C13_SeasonModeIds ==
    SeasonModeFetched =>
        IF MissingIds(got[1], invArgs.seasonNumber) = << >>
          THEN /\ Len(calls) = 1
               /\ outcome = Resolved(
                    [content |-> <<[type |-> "text",
                                    text |-> "No missing episodes found in season "
                                               \o ToString(invArgs.seasonNumber)]>>,
                     isError |-> "unset"])
          ELSE /\ Len(calls) = 2
               /\ calls[2].op = "searchEpisodes"
               /\ calls[2].arg = MissingIds(got[1], invArgs.seasonNumber)

\* Three episodes were fetched, one of them missing, monitored and in the
\* requested season, and the search command for it went through.
C13_Witness ==
    /\ SeasonModeFetched
    /\ Len(got) = 2
    /\ Len(got[1]) = 3
    /\ calls[2].arg = <<11>>
    /\ outcome.state = "resolved"

\* The season mode found nothing to search for among the fetched episodes.
C13_WitnessEmpty ==
    /\ SeasonModeFetched
    /\ Len(got[1]) = 1
    /\ outcome.state = "resolved"
    /\ Len(calls) = 1

\* list_series has returned its list.
ListSeriesReturned ==
    /\ invKind = "tool"
    /\ invName = "list_series"
    /\ outcome.state = "resolved"
    /\ outcome.result.isError # "true"

\* Does `title` contain `term`, letter case aside?  Stated position by
\* position.
ContainsIgnoringCase(title, term) ==
    \E start \in 1..(Len(title) + 1) :
        /\ start + Len(term) - 1 <= Len(title)
        /\ \A k \in 1..Len(term) :
              LowerChar(title[start + k - 1]) = LowerChar(term[k])

\* The series satisfies every filter the caller supplied.
SatisfiesFilters(series, args) ==
    /\ "monitored" \in args.has => series.monitored = args.monitored
    /\ "status" \in args.has => series.status = args.status
    /\ "search" \in args.has => ContainsIgnoringCase(series.title, args.search)

\* The filters applied one after the other, search first and monitored last.
FilteredInReverseOrder(all, args) ==
    LET bySearch == IF "search" \in args.has
                      THEN SelectSeq(all, LAMBDA s : ContainsIgnoringCase(s.title, args.search))
                      ELSE all
        byStatus == IF "status" \in args.has
                      THEN SelectSeq(bySearch, LAMBDA s : s.status = args.status)
                      ELSE bySearch
    IN  IF "monitored" \in args.has
          THEN SelectSeq(byStatus, LAMBDA s : s.monitored = args.monitored)
          ELSE byStatus

\* C14: list_series returns exactly the fetched series that satisfy every
\* supplied filter (monitored, status, title containing the search term in
\* any letter case); an omitted filter constrains nothing, the order of
\* applying the filters does not matter, and the count in the text summary
\* is the length of the returned list.
C14_ListSeriesFilters ==
    ListSeriesReturned =>
        LET returned == outcome.result.content[2].json
        IN  /\ returned = SelectSeq(got[1], LAMBDA s : SatisfiesFilters(s, invArgs))
            /\ returned = FilteredInReverseOrder(got[1], invArgs)
            /\ outcome.result.content[1].text =
                  "Found " \o ToString(Len(returned)) \o " series"
                    \o (IF "monitored" \in invArgs.has
                          THEN " (monitored: "
                                 \o (IF invArgs.monitored THEN "true" ELSE "false") \o ")"
                          ELSE "")
                    \o (IF "status" \in invArgs.has
                          THEN " (status: " \o invArgs.status \o ")" ELSE "")

\* monitored = true, status = ended and an upper-case search term together
\* leave nothing of three fetched series, each of which passes one filter.
C14_Witness ==
    /\ ListSeriesReturned
    /\ invArgs.has = {"monitored", "status", "search"}
    /\ invArgs.monitored
    /\ invArgs.status = "ended"
    /\ invArgs.search = <<"E", "T">>
    /\ Len(got[1]) = 3
    /\ outcome.result.content[2].json = << >>

\* manage_queue was called with an action other than 'list'.
ManageQueueNotList ==
    /\ invKind = "tool"
    /\ invName = "manage_queue"
    /\ invArgs.defined
    /\ "action" \in invArgs.has
    /\ invArgs.action # "list"

\* C15: manage_queue with action 'remove' and a queueId, whatever integer it
\* is, issues exactly one removeFromQueue(queueId) and returns a
\* confirmation; every other non-list combination returns isError = true,
\* issues no Client call and does not throw.
C15_Original ==
    ManageQueueNotList =>
        IF invArgs.action = "remove" /\ "queueId" \in invArgs.has
          THEN /\ Len(calls) = 1
               /\ calls[1].op = "removeFromQueue"
               /\ calls[1].arg = invArgs.queueId
               /\ (outcome.state = "resolved" /\ ~caught.any) =>
                     outcome.result =
                       [content |-> <<[type |-> "text",
                                       text |-> "Removed item " \o ToString(invArgs.queueId)
                                                  \o " from queue"]>>,
                        isError |-> "unset"]
          ELSE /\ calls = << >>
               /\ outcome.state = "resolved"
               /\ outcome.result.isError = "true"

\* ------------------------------------------------ claims: resource reads

\* Every read of a registered resource so far, the current one last.
ReadsSoFar ==
    readLog \o (IF invKind = "resource" THEN <<PastRead>> ELSE << >>)

TimesRead(uri) ==
    Cardinality({k \in 1..Len(ReadsSoFar) : ReadsSoFar[k].uri = uri})

TimesFetched(uri, op) ==
    Cardinality({<<k, j>> \in (1..Len(ReadsSoFar)) \X (1..2) :
                   /\ ReadsSoFar[k].uri = uri
                   /\ j <= Len(ReadsSoFar[k].fetched)
                   /\ ReadsSoFar[k].fetched[j] = op})

\* The Client fetches behind each resource.
FetchesBehind(uri) ==
    CASE uri = "sonarr://series/collection" -> {"getSeries"}
      [] uri = "sonarr://calendar/upcoming" -> {"getCalendar"}
      [] uri = "sonarr://system/status" -> {"getSystemStatus", "getDiskSpace"}
      [] uri = "sonarr://queue/current" -> {"getQueue"}
      [] uri = "sonarr://history/recent" -> {"getHistory"}
      [] uri = "sonarr://wanted/missing" -> {"getWantedMissing"}
      [] uri = "sonarr://config/quality-profiles" -> {"getQualityProfiles"}
      [] uri = "sonarr://config/root-folders" -> {"getRootFolders"}

\* C16: resource reads never cache: after n reads of a resource each Client
\* fetch behind it was invoked n times (and nothing else was fetched), and a
\* snapshot is built from the data fetched by its own read.
C16_ReadsNeverCache ==
    /\ \A uri \in ResourceUris : \A op \in FetchesBehind(uri) :
          TimesFetched(uri, op) = TimesRead(uri)
    /\ \A k \in 1..Len(ReadsSoFar) : \A j \in 1..Len(ReadsSoFar[k].fetched) :
          ReadsSoFar[k].fetched[j] \in FetchesBehind(ReadsSoFar[k].uri)
    /\ (invKind = "resource" /\ outcome.state = "resolved") =>
          /\ Len(got) = 1
          /\ outcome.result = Snapshot(invName, got[1])

\* Two reads of the queue in a row, upstream changing in between: the second
\* snapshot differs from the first, and getQueue was fetched twice.
C16_Witness ==
    /\ Len(readLog) = 1
    /\ readLog[1].uri = "sonarr://queue/current"
    /\ invKind = "resource"
    /\ invName = "sonarr://queue/current"
    /\ outcome.state = "resolved"
    /\ readLog[1].snapshot # << >>
    /\ outcome.result # readLog[1].snapshot[1]
    /\ TimesFetched("sonarr://queue/current", "getQueue") = 2

\* ----------------------------------------------------- claims: registries

ClaimedToolNames ==
    {"add_series", "list_series", "update_series", "remove_series", "search_series",
     "list_episodes", "search_episodes", "monitor_episodes", "manage_queue",
     "get_history", "search_missing_episodes", "get_wanted", "system_status",
     "get_calendar"}

ClaimedResourceUris ==
    {"sonarr://series/collection", "sonarr://calendar/upcoming",
     "sonarr://system/status", "sonarr://queue/current", "sonarr://history/recent",
     "sonarr://wanted/missing", "sonarr://config/quality-profiles",
     "sonarr://config/root-folders"}

\* C17: once initializeTools / initializeResources have run, however often,
\* the tool registry holds exactly the 14 named tools and the resource
\* registry exactly the 8 URIs; executeTool and readResource, and all that
\* follows from them, never add, remove or replace a registry entry.
C17_RegistryContents ==
    /\ [](/\ tools # EmptyRegistry =>
               (DOMAIN tools = ClaimedToolNames /\ Cardinality(DOMAIN tools) = 14)
          /\ resources # EmptyRegistry =>
               (DOMAIN resources = ClaimedResourceUris
                  /\ Cardinality(DOMAIN resources) = 8))
    /\ [][/\ (InitializeTools \/ InitializeToolsAgain) =>
                DOMAIN tools' = ClaimedToolNames
          /\ (InitializeResources \/ InitializeResourcesAgain) =>
                DOMAIN resources' = ClaimedResourceUris
          /\ invocationVars' # invocationVars =>
                (tools' = tools /\ resources' = resources)]_vars

\* Both initialisations have run twice, and a tool has been executed and has
\* resolved since.
C17_Witness ==
    /\ Generation(tools) = 2
    /\ Generation(resources) = 2
    /\ invKind = "tool"
    /\ outcome.state = "resolved"

\* ------------------------------------------------------- claims: client

\* C18: testConnection issues the system-status call and nothing else; when
\* the call succeeds it resolves with no value; when the call fails it
\* rejects with 'Failed to connect to Sonarr at <configured url>: <message of
\* the original error>' and never resolves.
C18_TestConnection ==
    invKind = "connection" =>
        /\ Len(calls) = 1
        /\ calls[1].op = "getSystemStatus"
        /\ caught.any =>
              /\ outcome.state = "rejected"
              /\ outcome.error.message =
                    "Failed to connect to Sonarr at " \o "http://localhost:8989" \o ": "
                      \o caught.error.message
        /\ outcome.state = "resolved" =>
              /\ ~caught.any
              /\ Len(got) = 1
              /\ outcome.result = VoidResult

\* testConnection has rejected after its status request got no response.
C18_Witness ==
    /\ invKind = "connection"
    /\ caught.any
    /\ ~caught.raw.hasResponse
    /\ caught.raw.hasRequest
    /\ outcome.state = "rejected"

\* The interceptor has normalised a failed request.
RequestFailed == caught.any /\ caught.call > 0

\* What the error carries besides its message: the status code exactly when
\* a response exists, and the raw response body.
CarriesStatusAndBody(e, raw) ==
    /\ e.kind = "SonarrApiError"
    /\ e.hasStatusCode = raw.hasResponse
    /\ raw.hasResponse => (e.statusCode = raw.status /\ e.response = raw.data)

\* C19 as stated: the message is a message or error field of the response
\* body; else 'HTTP <status>: <statusText>' when a response exists; else the
\* no-response message when the request was sent; else the raw transport
\* message; and the error carries the status code exactly when a response
\* exists, with the raw body.
C19_Original ==
    RequestFailed =>
        LET raw == caught.raw
        IN  /\ caught.error.message =
                  (IF raw.hasResponse /\ raw.data.type = "object" /\ raw.data.message # ""
                     THEN raw.data.message
                   ELSE IF raw.hasResponse /\ raw.data.type = "object" /\ raw.data.error # ""
                     THEN raw.data.error
                   ELSE IF raw.hasResponse
                     THEN "HTTP " \o ToString(raw.status) \o ": " \o raw.statusText
                   ELSE IF raw.hasRequest THEN "No response from Sonarr server"
                   ELSE raw.message)
            /\ CarriesStatusAndBody(caught.error, raw)

\* C19, amended: a response body that is a string is the message, whatever
\* it holds; else the body's message field, else its error field, when not
\* empty; else 'HTTP <status>: <statusText>' when a response exists; else the
\* no-response message when the request was sent; else the raw transport
\* message, or 'Unknown error' when that is empty.  The error carries the
\* status code exactly when a response exists, with the raw body.
C19_MessagePriority ==
    RequestFailed =>
        LET raw == caught.raw
        IN  /\ caught.error.message =
                  (IF raw.hasResponse /\ raw.data.type = "string" THEN raw.data.str
                   ELSE IF raw.hasResponse /\ raw.data.type = "object" /\ raw.data.message # ""
                     THEN raw.data.message
                   ELSE IF raw.hasResponse /\ raw.data.type = "object" /\ raw.data.error # ""
                     THEN raw.data.error
                   ELSE IF raw.hasResponse
                     THEN "HTTP " \o ToString(raw.status) \o ": " \o raw.statusText
                   ELSE IF raw.hasRequest THEN "No response from Sonarr server"
                   ELSE IF raw.message # "" THEN raw.message
                   ELSE "Unknown error")
            /\ CarriesStatusAndBody(caught.error, raw)

\* A 500 whose body is a plain string has been normalised: the string is the
\* message and the error carries the status.
C19_Witness ==
    /\ RequestFailed
    /\ caught.raw.hasResponse
    /\ caught.raw.data.type = "string"
    /\ caught.raw.data.str = "Bad Gateway"
    /\ caught.error.message = "Bad Gateway"
    /\ caught.error.statusCode = 500

\* ------------------------------------------------ claims: configuration

\* C20: SONARR_VERIFY_SSL set to the string 'false' yields verifySsl = false
\* and a client built with certificate validation disabled; unset or set to
\* 'true' it keeps validation enabled.
C20_Original ==
    axiosOptions.built =>
        /\ env.SONARR_VERIFY_SSL = <<"false">> =>
              (appConfig.verifySsl = FALSE /\ axiosOptions.rejectUnauthorized = FALSE)
        /\ env.SONARR_VERIFY_SSL \in {Unset, <<"true">>} =>
              (appConfig.verifySsl = TRUE /\ axiosOptions.rejectUnauthorized = TRUE)

\* ------------------------------------------------ claims: read-modify-write

UpdateSeriesRunning == invKind = "tool" /\ invName = "update_series"

\* The fetched record with the settings named in the args replaced.
FetchedWithSettings(fetched, args) ==
    [f \in DOMAIN fetched |->
        IF f = "monitored" /\ Has(args, "monitored") THEN args.monitored
        ELSE IF f = "qualityProfileId" /\ Has(args, "qualityProfileId")
          THEN args.qualityProfileId
        ELSE fetched[f]]

MethodsSent == [k \in 1..Len(httpLog) |-> httpLog[k].method]

\* C21: update_series fetches the series once and then PUTs once; the record
\* PUT is the fetched record with monitored and/or qualityProfileId replaced
\* by the supplied arguments and every other field as fetched; if the fetch
\* fails no PUT is issued.
C21_UpdateSeries ==
    UpdateSeriesRunning =>
        /\ Len(calls) <= 2
        /\ Len(calls) >= 1 => calls[1].op = "getSeriesById"
        /\ Len(calls) = 2 =>
              /\ calls[2].op = "updateSeries"
              /\ Len(got) >= 1
              /\ calls[2].arg = FetchedWithSettings(got[1], invArgs)
              /\ MethodsSent = <<"GET", "PUT">>
        /\ (outcome.state = "resolved" /\ outcome.result.isError = "unset") =>
              (Len(calls) = 2 /\ Len(got) = 2)
        /\ (caught.any /\ caught.call = 1) => MethodsSent = <<"GET">>

C21_Witness ==
    /\ UpdateSeriesRunning
    /\ outcome.state = "resolved"
    /\ outcome.result.isError = "unset"
    /\ Has(invArgs, "monitored") /\ ~invArgs.monitored
    /\ Has(invArgs, "qualityProfileId")
    /\ got[1].monitored /\ got[1].qualityProfileId = 1
    /\ calls[2].arg = [got[1] EXCEPT !.monitored = FALSE, !.qualityProfileId = 2]

\* Where in eventLog Sonarr handled handler h's call of op.
Position(h, op) ==
    CHOOSE k \in 1..Len(eventLog) : eventLog[k].handler = h /\ eventLog[k].op = op

HasAnswered(h, op) ==
    \E k \in 1..Len(eventLog) :
        eventLog[k].handler = h /\ eventLog[k].op = op /\ eventLog[k].ok

\* Two update_series invocations, both fetched before either PUT, both PUTs
\* answered.
BothFetchedBeforeEitherPut ==
    /\ \A h \in Handlers :
          /\ slots[h].name = "update_series"
          /\ HasAnswered(h, "getSeriesById")
          /\ HasAnswered(h, "updateSeries")
    /\ \A h, j \in Handlers : Position(h, "getSeriesById") < Position(j, "updateSeries")

LaterWriter ==
    CHOOSE h \in Handlers :
        \A j \in Handlers : Position(j, "updateSeries") <= Position(h, "updateSeries")

EarlierWriter == CHOOSE h \in Handlers : h # LaterWriter

Settings == {"monitored", "qualityProfileId"}

\* C22: when two update_series invocations on the same series both fetch
\* before either PUTs, both report success, Sonarr ends holding the whole
\* record of the later PUT, and a field only the earlier writer changed is
\* back at its old value.
C22_LastWriterWins ==
    BothFetchedBeforeEitherPut =>
        /\ \A h \in Handlers :
              /\ slots[h].outcome.state = "resolved"
              /\ slots[h].outcome.result.isError = "unset"
        /\ upstreamSeries = eventLog[Position(LaterWriter, "updateSeries")].arg
        /\ \A f \in Settings :
              (Has(slots[EarlierWriter].args, f) /\ ~Has(slots[LaterWriter].args, f)) =>
                  upstreamSeries[f] = slots[EarlierWriter].got[1][f]

C22_Witness ==
    /\ BothFetchedBeforeEitherPut
    /\ slots[EarlierWriter].args.has = {"seriesId", "monitored"}
    /\ slots[LaterWriter].args.has = {"seriesId", "qualityProfileId"}
    /\ eventLog[Position(EarlierWriter, "updateSeries")].arg.monitored = FALSE
    /\ upstreamSeries.monitored = TRUE
    /\ upstreamSeries.qualityProfileId = 2
    /\ \A h \in Handlers : slots[h].outcome.state = "resolved"

\* ------------------------------------------------ claims: shared Client

\* What Sonarr did with handler h's requests, in order.
OwnEvents(h) == SelectSeq(eventLog, LAMBDA ev : ev.handler = h)

\* The result that handler h's arguments and its own responses determine.
OwnResult(h) ==
    LET mine == OwnEvents(h)
        g == [k \in 1..Len(mine) |-> mine[k].data]
    IN  IF mine # << >> /\ ~mine[Len(mine)].ok
          THEN Catch(slots[h].kind, slots[h].name,
                     InterceptResponseError(mine[Len(mine)].error))
          ELSE LET e == Body(slots[h].kind, slots[h].name, slots[h].args, g)
               IN  IF e.do = "call" THEN Pending
                   ELSE IF e.do = "return" THEN Resolved(e.result)
                   ELSE Catch(slots[h].kind, slots[h].name, e.error)

ClientConfiguration == <<axiosOptions, appConfig, maxRetries>>

NearestPercent(p, n, d) ==
    LET c == GCD(d, n)
        gap == p * (d \div c) - 100 * (n \div c)
    IN  2 * (IF gap < 0 THEN -gap ELSE gap) <= d \div c

QueueReported ==
    sample.kind = "queue" /\ sample.tool # << >> /\ sample.resource # << >>

\* C24: manage_queue list reports round((1 - sizeleft/size) * 100) percent
\* when size > 0 and 'Unknown' when size is 0; for 0 <= sizeleft <= size and
\* size > 0 the value is an integer in 0..100 and is the progress the queue
\* resource reports for the same item.
C24_QueueProgress ==
    QueueReported =>
        LET item == sample.record
            shown == sample.tool[1].progress
            read == sample.resource[1].progress
        IN  IF item.size = 0 THEN shown = "Unknown"
            ELSE /\ read \in 0..100
                 /\ NearestPercent(read, item.size - item.sizeleft, item.size)
                 /\ shown = ToString(read) \o "%"

C24_Witness ==
    /\ QueueReported
    /\ sample.record.size = 1000000000
    /\ sample.record.sizeleft = 200000000
    /\ sample.tool[1].progress = "80%"
    /\ sample.resource[1].progress = 80

DiskReported ==
    sample.kind = "disk" /\ sample.tool # << >> /\ sample.resource # << >>

\* h hundredths is kib / 2^20 GB rounded to two decimals.
NearestHundredths(h, kib) ==
    LET part == h - 100 * (kib \div KiBPerGiB)
        gap == part * KiBPerGiB - 100 * (kib % KiBPerGiB)
    IN  2 * (IF gap < 0 THEN -gap ELSE gap) <= KiBPerGiB

\* C25: bytes are turned into GB as bytes / 1024^3 rounded to 2 decimals
\* and percent free is free/total * 100 rounded to the nearest integer;
\* 500,000,000,000 free of 1,000,000,000,000 is 465.66 GB and 50 percent in
\* the system status resource, and the system_status tool reports the same
\* figures for the same disk.
C25_DiskFigures ==
    DiskReported =>
        LET disk == sample.record
            shown == sample.tool[1]
            read == sample.resource[1]
        IN  /\ NearestHundredths(read.freeSpaceGB, disk.freeSpace)
            /\ NearestHundredths(read.totalSpaceGB, disk.totalSpace)
            /\ NearestPercent(read.percentFree, disk.freeSpace, disk.totalSpace)
            /\ shown.freeSpace = NumberToString(read.freeSpaceGB) \o " GB"
            /\ shown.totalSpace = NumberToString(read.totalSpaceGB) \o " GB"
            /\ shown.percentFree = ToString(read.percentFree) \o "%"
            /\ (disk = DiskRecord(488281250, 976562500)) =>
                  (read.freeSpaceGB = 46566 /\ read.percentFree = 50)

C25_Witness ==
    /\ DiskReported
    /\ sample.record = DiskRecord(488281250, 976562500)
    /\ sample.resource[1].freeSpaceGB = 46566
    /\ sample.resource[1].percentFree = 50
    /\ sample.tool[1].freeSpace = "465.66 GB"
    /\ sample.tool[1].percentFree = "50%"

\* ------------------------------------------------ claims: request handlers

Settled == outcome.state \in {"resolved", "rejected"}

\* An McpError (InternalError) whose message ends with the message of the
\* error executeTool or readResource rejected with.
InternalErrorCarrying(response, prefix) ==
    /\ response.response = "error"
    /\ response.error.kind = "McpError"
    /\ response.error.code = "InternalError"
    /\ outcome.error.message # ""
    /\ response.error.message = prefix \o outcome.error.message

\* C26: at the request handlers a tool whose execution fails on an upstream
\* or validation error is answered with a normal response with isError =
\* true, never with a protocol error; an unknown tool name, a resource read
\* whose fetch fails and an unknown resource URI are each answered with an
\* McpError (InternalError) carrying the underlying message.
C26_HandlerErrors ==
    Settled =>
        /\ invKind = "tool" =>
              /\ CallToolHandler(outcome).response = "result"
              /\ caught.any => CallToolHandler(outcome).isError = "true"
        /\ invKind = "unknownTool" =>
              InternalErrorCarrying(CallToolHandler(outcome), "Tool execution failed: ")
        /\ (invKind = "resource" /\ caught.any) =>
              InternalErrorCarrying(ReadResourceHandler(outcome), "Resource read failed: ")
        /\ invKind = "unknownResource" =>
              InternalErrorCarrying(ReadResourceHandler(outcome), "Resource read failed: ")

C26_Witness ==
    /\ invKind = "resource"
    /\ invName = "sonarr://queue/current"
    /\ caught.any
    /\ caught.call = 1
    /\ ReadResourceHandler(outcome).error =
          McpError("InternalError",
                   "Resource read failed: Failed to read queue: " \o NoResponseMessage)

\* ------------------------------------------------ claims: startup

Requested == invKind \in {"tool", "resource", "unknownTool", "unknownResource"}

\* C27: run() connects the transport only after environment validation, a
\* successful testConnection and the population of both registries, in that
\* order; if testConnection fails, neither registry is populated, the
\* transport is never connected and the process exits with code 1; no
\* request is dispatched against an empty registry or an untested Client.
C27_StartupOrder ==
    /\ server.connected => (Generation(tools) > 0 /\ Generation(resources) > 0)
    /\ Generation(resources) > 0 => Generation(tools) > 0
    /\ Generation(tools) > 0 => server.tested
    /\ server.tested => server.validated
    /\ server.validated => (axiosOptions.built /\ appConfig.state = "loaded")
    /\ (invKind = "connection" /\ outcome.state = "rejected") =>
          /\ ~server.tested
          /\ ~server.connected
          /\ Generation(tools) = 0 /\ Generation(resources) = 0
          /\ server.pc \in {"test", "exited"}
    /\ server.exitCode # << >> =>
          (server.exitCode = <<1>> /\ ~server.connected /\ server.pc = "exited")
    /\ Requested => server.connected

C27_Witness ==
    /\ invKind = "connection"
    /\ outcome.state = "rejected"
    /\ server.exitCode = <<1>>
    /\ Generation(tools) = 0
    /\ Generation(resources) = 0
    /\ ~server.connected

C27_WitnessServing ==
    /\ server.connected
    /\ invKind = "tool"
    /\ outcome.state = "resolved"

\* ------------------------------------------------ claims: guarded writes

MonitorEpisodesRunning ==
    invKind = "tool" /\ invName = "monitor_episodes" /\ Has(invArgs, "episodeIds")

UpdateIssued == CallsTo("updateEpisodes") # {}

\* C28: monitor_episodes fetches the given episode ids one at a time in the
\* given order and issues the bulk update at most once, only after every
\* fetch has succeeded, with every fetched episode's monitored flag set to
\* the requested value and all other fields as fetched; if any fetch fails,
\* no update is issued and the result has isError = true.
C28_MonitorEpisodes ==
    MonitorEpisodesRunning =>
        LET ids == invArgs.episodeIds
        IN  /\ Len(calls) <= Len(ids) + 1
            /\ \A k \in 1..Len(calls) :
                  IF k <= Len(ids)
                    THEN calls[k].op = "getEpisodeById" /\ calls[k].arg = ids[k]
                    ELSE calls[k].op = "updateEpisodes"
            /\ UpdateIssued =>
                  /\ Len(got) >= Len(ids)
                  /\ calls[Len(ids) + 1].arg =
                        [i \in 1..Len(ids) |->
                            [f \in DOMAIN got[i] |->
                                IF f = "monitored" THEN invArgs.monitored ELSE got[i][f]]]
            /\ (caught.any /\ caught.call \in 1..Len(ids)) =>
                  /\ ~UpdateIssued
                  /\ \A k \in 1..Len(httpLog) : httpLog[k].method = "GET"
                  /\ outcome.result.isError = "true"

C28_Witness ==
    /\ MonitorEpisodesRunning
    /\ invArgs.episodeIds = <<11, 12>>
    /\ outcome.state = "resolved"
    /\ outcome.result.isError = "unset"
    /\ ~got[1].monitored /\ got[2].monitored
    /\ calls[3].op = "updateEpisodes"
    /\ calls[3].arg[1].monitored /\ calls[3].arg[2].monitored

RemoveSeriesRunning == invKind = "tool" /\ invName = "remove_series"

DeleteIssued == CallsTo("deleteSeries") # {}

\* C29: remove_series issues the delete only after the lookup of the series
\* id has succeeded; if the lookup fails no delete is issued and the result
\* has isError = true; the delete asks for the files to be deleted only when
\* the caller passed deleteFiles = true.
C29_RemoveSeries ==
    RemoveSeriesRunning =>
        /\ Len(calls) <= 2
        /\ Len(calls) >= 1 =>
              (calls[1].op = "getSeriesById" /\ calls[1].arg = Opt(invArgs, "seriesId"))
        /\ DeleteIssued =>
              /\ Len(got) >= 1
              /\ calls[2].op = "deleteSeries"
              /\ calls[2].arg.id = calls[1].arg
              /\ calls[2].arg.deleteFiles =
                    (Has(invArgs, "deleteFiles") /\ invArgs.deleteFiles = TRUE)
        /\ (caught.any /\ caught.call = 1) =>
              /\ ~DeleteIssued
              /\ \A k \in 1..Len(httpLog) : httpLog[k].method # "DELETE"
              /\ outcome.result.isError = "true"

C29_Witness ==
    /\ RemoveSeriesRunning
    /\ outcome.state = "resolved"
    /\ outcome.result.isError = "unset"
    /\ Has(invArgs, "seriesId")
    /\ ~Has(invArgs, "deleteFiles")
    /\ calls[2].op = "deleteSeries"
    /\ calls[2].arg.deleteFiles = FALSE

\* ------------------------------------------------ claims: cause text

\* C30: every error leaving the response error handler carries a non-empty
\* message, whatever the response, the shape of its body (a string, the
\* empty string included, an object with a message or error field, anything
\* else) or the transport error.
C30_Original ==
    RequestFailed => caught.error.message # ""

====
